---- MODULE Spec2Model ----
(***************************************************************************)
(* A model of the crypto tax economy monitor: CryptoMonitor                *)
(* (crypto_monitor.py) and FinvestaMonitor (finvesta_integration.py).      *)
(*                                                                         *)
(* Numbers.  The program computes in IEEE doubles (numpy float64 for the   *)
(* values read out of a DataFrame).  The model computes in exact rationals *)
(* extended with +inf, -inf and nan: a number is a pair <<n, d>> in lowest *)
(* terms with d > 0, or <<1, 0>> (+inf), <<-1, 0>> (-inf), <<0, 0>> (nan). *)
(* Division by zero, infinities and nan are modelled.  Rounding is modelled *)
(* where a result depends on it: the operators named Rounded... compute in *)
(* a binary floating-point format of Precision significant bits, rounding  *)
(* each operation to nearest, ties to even, as IEEE arithmetic does.       *)
(***************************************************************************)
EXTENDS Integers, Sequences, FiniteSets, TLC

VARIABLES
    data_cache,        \* self.data_cache: cache key -> merged DataFrame (a sequence of rows)
    tokens,            \* self.tokens: the list of monitored token ids
    tax_rates,         \* self.tax_rates: token id -> tax rate
    roi_expectations,  \* self.roi_expectations: token id -> daily ROI
    wallets,           \* self.wallets: wallet name -> address
    now,               \* the wall clock read by datetime.now()
    last_get,          \* the most recent get_token_data call: arguments, whether
                       \* requests.get was invoked, and the value returned
    last_health,       \* the most recent analyze_token_health call and its return value
    eco,               \* the run of analyze_multi_token_ecosystem: position and locals
    last_wallet,       \* the check_wallet_activity call that has just returned, if any
    wallet_outcomes,   \* history: for each way the ledger source can yield no
                       \* transactions, the values check_wallet_activity returned
    wallet_order,      \* the keys of self.wallets in insertion order (a dict keeps it)
    project_wallets,   \* self.project_wallets: token id -> list of wallet infos
    last_sust,         \* the most recent check_sustainability call and its return value
    hc,                \* the run of run_health_check: position and locals
    tax,               \* the check_token_tax_distribution call that has just returned, if any
    last_cli,          \* the command-line run that has just exited, if any
    par                \* the get_token_data calls running in threads of their own

vars == <<data_cache, tokens, tax_rates, roi_expectations, wallets, now,
          last_get, last_health, eco, last_wallet, wallet_outcomes,
          wallet_order, project_wallets, last_sust, hc, tax, last_cli, par>>

-----------------------------------------------------------------------------
(* Bounds of the model. *)

\* longest price/volume series the market data source returns
MaxLen == 2
\* longest token list handed to analyze_multi_token_ecosystem
MaxTokens == 2
\* the clock runs from 0 to MaxClock
MaxClock == 1
\* longest transaction list the ledger source returns
MaxTxs == 2
\* number of threads that call get_token_data on one monitor
MaxThreads == 3
\* significant bits of the floating-point format of the rounded operators
Precision == 4

-----------------------------------------------------------------------------
(* Extended rational arithmetic standing for float arithmetic. *)

Abs(n) == IF n < 0 THEN -n ELSE n

Sign(n) == IF n < 0 THEN -1 ELSE IF n > 0 THEN 1 ELSE 0

RECURSIVE GCD(_, _)
GCD(a, b) == IF b = 0 THEN a ELSE GCD(b, a % b)

\* the number n/d; d = 0 gives nan, +inf or -inf as IEEE division does
Num(n, d) ==
    IF d = 0 THEN <<Sign(n), 0>>
    ELSE LET g == GCD(Abs(n), Abs(d))
             s == Sign(d)
         IN  <<(s * n) \div g, (s * d) \div g>>

Int2Num(n) == <<n, 1>>

PosInf == <<1, 0>>

NegInf == <<-1, 0>>

NaN == <<0, 0>>

IsNaN(x) == x = NaN

IsFinite(x) == x[2] # 0

FAdd(x, y) ==
    IF IsNaN(x) \/ IsNaN(y) THEN NaN
    ELSE IF ~IsFinite(x) /\ ~IsFinite(y) THEN (IF x = y THEN x ELSE NaN)
    ELSE IF ~IsFinite(x) THEN x
    ELSE IF ~IsFinite(y) THEN y
    ELSE Num(x[1] * y[2] + y[1] * x[2], x[2] * y[2])

FNeg(x) == <<-x[1], x[2]>>

FSub(x, y) == FAdd(x, FNeg(y))

FMul(x, y) ==
    IF IsNaN(x) \/ IsNaN(y) THEN NaN
    ELSE IF IsFinite(x) /\ IsFinite(y) THEN Num(x[1] * y[1], x[2] * y[2])
    ELSE <<Sign(x[1]) * Sign(y[1]), 0>>

\* numpy float64 division: x/0 is +-inf, 0/0 is nan, no exception
FDiv(x, y) ==
    IF IsNaN(x) \/ IsNaN(y) THEN NaN
    ELSE IF IsFinite(y)
         THEN (IF y[1] = 0 THEN <<Sign(x[1]), 0>>
               ELSE FMul(x, Num(y[2], y[1])))
    ELSE IF IsFinite(x) THEN Int2Num(0)
    ELSE NaN

\* x < y; every comparison with nan is false
FLt(x, y) ==
    IF IsNaN(x) \/ IsNaN(y) THEN FALSE
    ELSE IF ~IsFinite(x) \/ ~IsFinite(y)
         THEN (IF x = y THEN FALSE
               ELSE IF x = NegInf \/ y = PosInf THEN TRUE
               ELSE FALSE)
    ELSE x[1] * y[2] < y[1] * x[2]

\* a comparison that admits equality
FGt_OrEqual(x, y) == x = y \/ FLt(y, x)

\* x > y
FGt(x, y) == FLt(y, x)

\* a comparison that excludes equality
FGe_Strict(x, y) == ~IsNaN(x) /\ ~IsNaN(y) /\ FLt(y, x)

\* x >= y
FGe(x, y) == ~IsNaN(x) /\ ~IsNaN(y) /\ (x = y \/ FLt(y, x))

RECURSIVE FSum(_)
\* sum(list), starting from 0
FSum(s) == IF s = <<>> THEN Int2Num(0) ELSE FAdd(FSum(SubSeq(s, 1, Len(s) - 1)), s[Len(s)])

-----------------------------------------------------------------------------
(* Floating-point arithmetic with rounding. *)

RECURSIVE Pow2(_)
Pow2(k) == IF k = 0 THEN 1 ELSE 2 * Pow2(k - 1)

RECURSIVE RoundPos(_, _, _)
\* the number n/d * 2^k (n, d > 0) rounded to Precision significant bits
RoundPos(n, d, k) ==
    IF n >= Pow2(Precision) * d THEN RoundPos(n, 2 * d, k + 1)
    ELSE IF n < Pow2(Precision - 1) * d THEN RoundPos(2 * n, d, k - 1)
    ELSE LET q == n \div d
             r == n % d
             m == IF 2 * r > d \/ (2 * r = d /\ q % 2 = 1) THEN q + 1 ELSE q
         IN  IF k >= 0 THEN Num(m * Pow2(k), 1) ELSE Num(m, Pow2(-k))

\* the floating-point number nearest to x (exponents are not bounded)
Round(x) ==
    IF ~IsFinite(x) \/ x[1] = 0 THEN x
    ELSE LET r == RoundPos(Abs(x[1]), x[2], 0)
         IN  <<Sign(x[1]) * r[1], r[2]>>

RoundedAdd(x, y) == Round(FAdd(x, y))

RoundedMul(x, y) == Round(FMul(x, y))

RoundedDiv(x, y) == Round(FDiv(x, y))

RECURSIVE RoundedSum(_)
RoundedSum(s) ==
    IF s = <<>> THEN Int2Num(0)
    ELSE RoundedAdd(RoundedSum(SubSeq(s, 1, Len(s) - 1)), Round(s[Len(s)]))

\* Series.mean()
RoundedMean(xs) == RoundedDiv(RoundedSum(xs), Int2Num(Len(xs)))

-----------------------------------------------------------------------------
(* The market data source and the series cache (get_token_data). *)

\* the token ids the model calls the monitor with
TokenIds == {"hex", "finvesta"}

\* the (price, volume) observations the market data source reports
Points == {<<0, 0>>, <<2, 3>>}

RECURSIVE SeqsUpTo(_, _)
\* all sequences over S of length at most n
SeqsUpTo(S, n) ==
    IF n = 0 THEN {<<>>}
    ELSE LET shorter == SeqsUpTo(S, n - 1)
         IN  shorter \cup {Append(s, x) : s \in {t \in shorter : Len(t) = n - 1}, x \in S}

PointSeqs == SeqsUpTo(Points, MaxLen)

\* the "prices" list of a market_chart body: [timestamp, price] pairs
PriceList(ps) == [i \in 1..Len(ps) |-> <<i, ps[i][1]>>]

\* the "total_volumes" list of a market_chart body: [timestamp, volume] pairs
VolumeList(ps) == [i \in 1..Len(ps) |-> <<i, ps[i][2]>>]

\* What requests.get and response.json() can give: a raised exception, a
\* status other than 200, a 200 whose JSON lacks the keys, or a 200 with the
\* two lists (the volume list possibly missing its last timestamp).
Responses ==
    {[raised |-> TRUE, status_code |-> 0, has_keys |-> FALSE,
      prices |-> <<>>, total_volumes |-> <<>>]}
    \cup {[raised |-> FALSE, status_code |-> 429, has_keys |-> FALSE,
           prices |-> <<>>, total_volumes |-> <<>>]}
    \cup {[raised |-> FALSE, status_code |-> 200, has_keys |-> FALSE,
           prices |-> <<>>, total_volumes |-> <<>>]}
    \cup {[raised |-> FALSE, status_code |-> 200, has_keys |-> TRUE,
           prices |-> PriceList(ps), total_volumes |-> VolumeList(ps)] : ps \in PointSeqs}
    \cup {[raised |-> FALSE, status_code |-> 200, has_keys |-> TRUE,
           prices |-> PriceList(ps),
           total_volumes |-> VolumeList(SubSeq(ps, 1, Len(ps) - 1))] :
              ps \in {q \in PointSeqs : Len(q) = 1}}

\* Python's None as a returned value; a returned DataFrame or dict is wrapped
\* by Some so that the two can be compared
None == [none |-> TRUE, val |-> <<>>]

Some(v) == [none |-> FALSE, val |-> v]

\* f"{token_id}_{days}_{vs_currency}"
CacheKey(token_id, days, vs_currency) ==
    token_id \o "_" \o ToString(days) \o "_" \o vs_currency

RECURSIVE Merge(_, _)
\* prices.merge(volumes, on=["timestamp", "date"]): the inner join on the
\* timestamp, in the order of the price rows ("date" is a function of
\* "timestamp" and is not carried)
Merge(prices, volumes) ==
    IF prices = <<>> THEN <<>>
    ELSE LET p == Head(prices)
             matches == SelectSeq(volumes, LAMBDA v : v[1] = p[1])
         IN  [i \in 1..Len(matches) |->
                 [timestamp |-> p[1], price |-> p[2], volume |-> matches[i][2]]]
             \o Merge(Tail(prices), volumes)

\* get_token_data without its cache lookup: every call fetches
GetTokenData_NoLookup(cache, token_id, days, vs_currency, response) ==
    LET cache_key == CacheKey(token_id, days, vs_currency)
    IN  IF ~response.raised /\ response.status_code = 200 /\ response.has_keys
        THEN LET result == Merge(response.prices, response.total_volumes)
             IN  [cache |-> [k \in DOMAIN cache \cup {cache_key} |->
                                IF k = cache_key THEN result ELSE cache[k]],
                  ret |-> Some(result), requested |-> TRUE]
        ELSE [cache |-> cache, ret |-> None, requested |-> TRUE]

\* get_token_data storing an empty frame under the key when the fetch fails
GetTokenData_CacheFailure(cache, token_id, days, vs_currency, response) ==
    LET cache_key == CacheKey(token_id, days, vs_currency)
    IN  IF cache_key \in DOMAIN cache
        THEN [cache |-> cache, ret |-> Some(cache[cache_key]), requested |-> FALSE]
        ELSE IF ~response.raised /\ response.status_code = 200 /\ response.has_keys
        THEN LET result == Merge(response.prices, response.total_volumes)
             IN  [cache |-> [k \in DOMAIN cache \cup {cache_key} |->
                                IF k = cache_key THEN result ELSE cache[k]],
                  ret |-> Some(result), requested |-> TRUE]
        ELSE [cache |-> [k \in DOMAIN cache \cup {cache_key} |->
                            IF k = cache_key THEN <<>> ELSE cache[k]],
              ret |-> None, requested |-> TRUE]

\* get_token_data(token_id, days, vs_currency) on cache `cache`, when the
\* market data source would answer `response`: the cache afterwards, the
\* value returned, and whether requests.get was invoked
GetTokenData(cache, token_id, days, vs_currency, response) ==
    LET cache_key == CacheKey(token_id, days, vs_currency)
    IN  IF cache_key \in DOMAIN cache
        THEN [cache |-> cache, ret |-> Some(cache[cache_key]), requested |-> FALSE]
        ELSE IF ~response.raised /\ response.status_code = 200 /\ response.has_keys
        THEN LET result == Merge(response.prices, response.total_volumes)
             IN  [cache |-> [k \in DOMAIN cache \cup {cache_key} |->
                                IF k = cache_key THEN result ELSE cache[k]],
                  ret |-> Some(result), requested |-> TRUE]
        ELSE [cache |-> cache, ret |-> None, requested |-> TRUE]

\* The record kept of a get_token_data call: its arguments, whether
\* requests.get was invoked, whether the try block raised (requests.get
\* itself, or the KeyError of data["prices"]), the status read (0 when none
\* was), and the value returned.
GetRecord(token_id, days, vs_currency, response, g) ==
    [token_id |-> token_id, days |-> days, vs_currency |-> vs_currency,
     cache_key |-> CacheKey(token_id, days, vs_currency),
     requested |-> g.requested,
     raised |-> g.requested /\ (response.raised \/
                                (response.status_code = 200 /\ ~response.has_keys)),
     status_code |-> IF g.requested /\ ~response.raised THEN response.status_code ELSE 0,
     ret |-> g.ret]

\* What the market data source can answer to a get_token_data call.  On a
\* cache hit requests.get is not invoked and no answer is read: one stands for all.
Answers(cache, token_id, days, vs_currency) ==
    IF CacheKey(token_id, days, vs_currency) \in DOMAIN cache
    THEN {[raised |-> TRUE, status_code |-> 0, has_keys |-> FALSE,
           prices |-> <<>>, total_volumes |-> <<>>]}
    ELSE Responses

\* The steps of get_token_data between which another thread can run.  Each
\* operation on self.data_cache (the membership test, the subscript read, the
\* subscript store) is one dict operation on a str key, which the interpreter
\* runs without switching threads.

\* `cache_key in self.data_cache`
CacheHas(cache, cache_key) == cache_key \in DOMAIN cache

\* the try block up to `result`: the merged frame, or None when the call
\* returns None (exception, status other than 200)
FetchResult(response) ==
    IF ~response.raised /\ response.status_code = 200 /\ response.has_keys
    THEN Some(Merge(response.prices, response.total_volumes))
    ELSE None

\* a store that replaces the dict by one holding the new entry only
CacheStore_Replace(cache, cache_key, result) == [k \in {cache_key} |-> result]

\* `self.data_cache[cache_key] = result`
CacheStore(cache, cache_key, result) ==
    [k \in DOMAIN cache \cup {cache_key} |-> IF k = cache_key THEN result ELSE cache[k]]

\* the same, when the market data source answers a request with one of `responses`
AnswersAmong(cache, token_id, days, vs_currency, responses) ==
    IF CacheKey(token_id, days, vs_currency) \in DOMAIN cache
    THEN Answers(cache, token_id, days, vs_currency)
    ELSE responses

-----------------------------------------------------------------------------
(* The token health evaluator (analyze_token_health). *)

\* the column `col` of a DataFrame as a sequence of numbers
Column(data, col) == [i \in 1..Len(data) |-> Int2Num(data[i][col])]

\* Series.mean() of a non-empty column
Mean(xs) == FDiv(FSum(xs), Int2Num(Len(xs)))

\* Series.std() squared: the sample variance (ddof = 1), nan for one row
Variance(xs) ==
    LET m == Mean(xs)
        sq == [i \in 1..Len(xs) |-> FMul(FSub(xs[i], m), FSub(xs[i], m))]
    IN  FDiv(FSum(sq), Int2Num(Len(xs) - 1))

\* a volume health check whose comparisons admit equality
VolumeHealth_Inclusive(current_volume, avg_volume) ==
    IF ~FGt(current_volume, FMul(avg_volume, Num(1, 2))) THEN "Warning: Volume drop"
    ELSE IF ~FLt(current_volume, FMul(avg_volume, Int2Num(2))) THEN "High volume activity"
    ELSE "Normal"

\* the volume health check of analyze_token_health
VolumeHealth(current_volume, avg_volume) ==
    IF FLt(current_volume, FMul(avg_volume, Num(1, 2))) THEN "Warning: Volume drop"
    ELSE IF FGt(current_volume, FMul(avg_volume, Int2Num(2))) THEN "High volume activity"
    ELSE "Normal"

\* The metrics and the report of analyze_token_health for a non-empty
\* DataFrame, read at clock value `clock`.  price_volatility is std / mean *
\* 100; a square root is not rational, so the field holds its square
\* (variance / mean^2 * 100^2), which orders the same way for the
\* non-negative prices of the model.
HealthReport(token_id, data, clock) ==
    LET price == Column(data, "price")
        volume == Column(data, "volume")
        current_price == price[Len(price)]
        avg_price == Mean(price)
        price_change ==
            FMul(FDiv(FSub(current_price, price[1]), price[1]), Int2Num(100))
        current_volume == volume[Len(volume)]
        avg_volume == Mean(volume)
        volume_change ==
            FMul(FDiv(FSub(current_volume, volume[1]), volume[1]), Int2Num(100))
        price_volatility_sq ==
            FMul(FDiv(Variance(price), FMul(avg_price, avg_price)), Int2Num(10000))
    IN  [token |-> token_id,
         current_price |-> current_price,
         price_change_30d |-> price_change,
         price_volatility |-> price_volatility_sq,
         current_volume |-> current_volume,
         volume_change_30d |-> volume_change,
         volume_health |-> VolumeHealth(current_volume, avg_volume),
         timestamp |-> clock]

\* the guard of analyze_token_health: `data is None or len(data) == 0`
NoDataAvailable(data) == data.none \/ Len(data.val) = 0

\* analyze_token_health(token_id): the cache afterwards, the get_token_data
\* call made, and the value returned (None or the health report)
AnalyzeTokenHealth(cache, token_id, response, clock) ==
    LET g == GetTokenData(cache, token_id, 30, "usd", response)
    IN  [cache |-> g.cache,
         get |-> GetRecord(token_id, 30, "usd", response, g),
         ret |-> IF NoDataAvailable(g.ret) THEN None
                 ELSE Some(HealthReport(token_id, g.ret.val, clock))]

-----------------------------------------------------------------------------
(* The sustainability model (check_sustainability, check_token_sustainability). *)

\* the tax rates the model sets: 0 % and 15 % (5 % is the default)
TaxRateValues == {Num(0, 100), Num(15, 100)}

\* the daily ROI the model sets: 0 % (1 % is the default)
RoiValues == {Num(0, 100)}

\* self.tax_rates.get(token_id, 0.05)
TaxRateOf(rates, token_id) ==
    IF token_id \in DOMAIN rates THEN rates[token_id] ELSE Num(5, 100)

\* self.roi_expectations.get(token_id, 0.01)
RoiOf(rois, token_id) ==
    IF token_id \in DOMAIN rois THEN rois[token_id] ELSE Num(1, 100)

\* the ratio of check_sustainability:
\* daily_tax_revenue / required_payouts if required_payouts > 0 else inf
SustainabilityRatio(daily_tax_revenue, required_payouts) ==
    IF FGt(required_payouts, Int2Num(0))
    THEN FDiv(daily_tax_revenue, required_payouts)
    ELSE PosInf

\* check_sustainability(token_id, daily_volume, tax_rate, total_supply_value, daily_roi)
CheckSustainability(token_id, daily_volume, tax_rate, total_supply_value, daily_roi, clock) ==
    LET daily_tax_revenue == FMul(daily_volume, tax_rate)
        required_payouts == FMul(total_supply_value, daily_roi)
    IN  [token |-> token_id,
         daily_volume |-> daily_volume,
         tax_rate |-> tax_rate,
         daily_tax_revenue |-> daily_tax_revenue,
         total_supply_value |-> total_supply_value,
         daily_roi |-> daily_roi,
         required_payouts |-> required_payouts,
         is_sustainable |-> FGe(daily_tax_revenue, required_payouts),
         sustainability_ratio |-> SustainabilityRatio(daily_tax_revenue, required_payouts),
         timestamp |-> clock]

\* the default total supply value of check_token_sustainability ($10M)
DefaultSupplyValue == 10000000

\* check_token_sustainability(token_id, estimate_supply)
CheckTokenSustainability(cache, rates, rois, token_id, estimate_supply, response, clock) ==
    LET g == GetTokenData(cache, token_id, 30, "usd", response)
        avg_daily_volume == Mean(Column(g.ret.val, "volume"))
        total_supply_value ==
            IF estimate_supply THEN FMul(avg_daily_volume, Int2Num(10))
            ELSE Int2Num(DefaultSupplyValue)
    IN  [cache |-> g.cache,
         get |-> GetRecord(token_id, 30, "usd", response, g),
         ret |-> IF NoDataAvailable(g.ret) THEN None
                 ELSE Some(CheckSustainability(token_id, avg_daily_volume,
                                               TaxRateOf(rates, token_id),
                                               total_supply_value,
                                               RoiOf(rois, token_id), clock))]

\* check_sustainability in floating-point arithmetic
RoundedCheckSustainability(token_id, daily_volume, tax_rate, total_supply_value, daily_roi, clock) ==
    LET daily_tax_revenue == RoundedMul(daily_volume, tax_rate)
        required_payouts == RoundedMul(total_supply_value, daily_roi)
    IN  [token |-> token_id,
         daily_volume |-> daily_volume,
         tax_rate |-> tax_rate,
         daily_tax_revenue |-> daily_tax_revenue,
         total_supply_value |-> total_supply_value,
         daily_roi |-> daily_roi,
         required_payouts |-> required_payouts,
         is_sustainable |-> FGe(daily_tax_revenue, required_payouts),
         sustainability_ratio |->
             IF FGt(required_payouts, Int2Num(0))
             THEN RoundedDiv(daily_tax_revenue, required_payouts)
             ELSE PosInf,
         timestamp |-> clock]

\* check_token_sustainability in floating-point arithmetic; the configured
\* rates are floats, the nearest to the decimal values written
RoundedCheckTokenSustainability(cache, rates, rois, token_id, estimate_supply, response, clock) ==
    LET g == GetTokenData(cache, token_id, 30, "usd", response)
        avg_daily_volume == RoundedMean(Column(g.ret.val, "volume"))
        total_supply_value ==
            IF estimate_supply THEN RoundedMul(avg_daily_volume, Int2Num(10))
            ELSE Int2Num(DefaultSupplyValue)
    IN  [cache |-> g.cache,
         get |-> GetRecord(token_id, 30, "usd", response, g),
         ret |-> IF NoDataAvailable(g.ret) THEN None
                 ELSE Some(RoundedCheckSustainability(
                               token_id, avg_daily_volume,
                               Round(TaxRateOf(rates, token_id)),
                               total_supply_value,
                               Round(RoiOf(rois, token_id)), clock))]

-----------------------------------------------------------------------------
(* The ecosystem aggregator (analyze_multi_token_ecosystem). *)

\* the token lists the model hands to analyze_multi_token_ecosystem
TokenLists == SeqsUpTo(TokenIds, MaxTokens)

\* The locals of analyze_multi_token_ecosystem before its loop.  Three fields
\* are a history kept by the model: health_tokens is the token behind each
\* entry of price_changes (and each addend of total_volume), score_tokens the
\* token behind each entry of sustainability_scores, and sust_reports every
\* report check_token_sustainability returned in the run.
EcoBegin(token_ids, clock) ==
    [pc |-> "health", token_ids |-> token_ids, i |-> 1, timestamp |-> clock,
     tokens |-> <<>>, total_volume |-> Int2Num(0), price_changes |-> <<>>,
     sustainability_scores |-> <<>>,
     health_tokens |-> <<>>, score_tokens |-> <<>>, sust_reports |-> <<>>,
     visited |-> <<>>,
     metrics |-> [total_volume |-> Int2Num(0), avg_price_change |-> Int2Num(0),
                  sustainability_score |-> Int2Num(0), health_status |-> "unset"]]

\* `if sustainability and sustainability["sustainability_ratio"] > 0`
ScoreCounts(sustainability) ==
    ~sustainability.none /\ FGt(sustainability.val.sustainability_ratio, Int2Num(0))

\* sum(xs) / len(xs) if xs else 0
MeanOrZero(xs) == IF Len(xs) > 0 THEN FDiv(FSum(xs), Int2Num(Len(xs))) ELSE Int2Num(0)

\* an assessment whose thresholds belong to the lower status
HealthStatus_Inclusive(score) ==
    IF ~FGt(score, Int2Num(1)) THEN "Critical: Unsustainable"
    ELSE IF ~FGt(score, Num(3, 2)) THEN "Warning: Marginally Sustainable"
    ELSE "Healthy: Sustainable"

\* the overall ecosystem health assessment
HealthStatus(score) ==
    IF FLt(score, Int2Num(1)) THEN "Critical: Unsustainable"
    ELSE IF FLt(score, Num(3, 2)) THEN "Warning: Marginally Sustainable"
    ELSE "Healthy: Sustainable"

\* metrics whose price change is averaged over every token of the list
EcoFinish_MeanOverList(e) ==
    LET score == MeanOrZero(e.sustainability_scores)
    IN  [e EXCEPT !.pc = "done",
                  !.metrics = [total_volume |-> e.total_volume,
                               avg_price_change |->
                                   IF Len(e.price_changes) > 0
                                   THEN FDiv(FSum(e.price_changes),
                                             Int2Num(Len(e.token_ids)))
                                   ELSE Int2Num(0),
                               sustainability_score |-> score,
                               health_status |-> HealthStatus(score)]]

\* the ecosystem metrics computed after the loop
EcoFinish(e) ==
    LET score == MeanOrZero(e.sustainability_scores)
    IN  [e EXCEPT !.pc = "done",
                  !.metrics = [total_volume |-> e.total_volume,
                               avg_price_change |-> MeanOrZero(e.price_changes),
                               sustainability_score |-> score,
                               health_status |-> HealthStatus(score)]]

\* a loop that ends at the first token without a health report
EcoAfterHealth_AbortOnFailure(e, token_health) ==
    IF token_health.none THEN [e EXCEPT !.pc = "done"]
    ELSE [e EXCEPT !.pc = "sustainability",
                   !.tokens = [t \in DOMAIN e.tokens \cup {e.token_ids[e.i]} |->
                                  IF t = e.token_ids[e.i] THEN token_health.val
                                  ELSE e.tokens[t]],
                   !.visited = Append(e.visited, [id |-> e.token_ids[e.i], ok |-> TRUE])]

\* The first half of a loop iteration: the token's health is taken into the
\* report when there is one.  `visited` is history: the tokens evaluated so
\* far and whether analyze_token_health returned a report.
EcoAfterHealth(e, token_health) ==
    IF token_health.none
    THEN [e EXCEPT !.pc = "sustainability",
                   !.visited = Append(e.visited, [id |-> e.token_ids[e.i], ok |-> FALSE])]
    ELSE LET token_id == e.token_ids[e.i]
         IN  [e EXCEPT !.pc = "sustainability",
                       !.visited = Append(e.visited, [id |-> token_id, ok |-> TRUE]),
                       !.tokens = [t \in DOMAIN e.tokens \cup {token_id} |->
                                      IF t = token_id THEN token_health.val
                                      ELSE e.tokens[t]],
                       !.total_volume = FAdd(e.total_volume, token_health.val.current_volume),
                       !.price_changes = Append(e.price_changes,
                                                token_health.val.price_change_30d),
                       !.health_tokens = Append(e.health_tokens, token_id)]

\* the second half of a loop iteration: the token's sustainability; after
\* the last token the metrics are computed and the report returned
EcoAfterSustainability(e, sustainability) ==
    LET seen ==
            IF sustainability.none THEN e
            ELSE [e EXCEPT !.sust_reports = Append(e.sust_reports, sustainability.val)]
        scored ==
            IF ScoreCounts(sustainability)
            THEN [seen EXCEPT !.sustainability_scores =
                                  Append(e.sustainability_scores,
                                         sustainability.val.sustainability_ratio),
                              !.score_tokens = Append(e.score_tokens, e.token_ids[e.i])]
            ELSE seen
    IN  IF e.i = Len(e.token_ids) THEN EcoFinish(scored)
        ELSE [scored EXCEPT !.pc = "health", !.i = e.i + 1]

-----------------------------------------------------------------------------
(* The ledger data source and the wallet activity analyzer                 *)
(* (get_pulsechain_wallet, check_wallet_activity).                         *)

\* the address the monitored wallet is configured with (mixed case)
SubjectAddress == "0xAbC"

\* the addresses the ledger reports: the subject in lower case, and another
LedgerAddresses == {"0xabc", "0xdef"}

\* a comparison of addresses that keeps the case
Lower_CaseSensitive(address) == address

\* str.lower() on the addresses of the model
Lower(address) == IF address = "0xAbC" THEN "0xabc" ELSE address

\* The shapes of a transaction of the ledger.  `value` is the raw value in
\* units of 10^16 wei, so that value_eth = value / 1e18 is value / 100.
TxShapes ==
    {sh \in [value : {2, 5, 10}, from : LedgerAddresses, to : LedgerAddresses,
             timeStamp : {1, 2}] : "0xabc" \in {sh.from, sh.to}}

\* the transaction lists of the ledger: the i-th entry has the hash "h<i>"
TxLists ==
    {[i \in 1..Len(shapes) |->
         [hash |-> "h" \o ToString(i), value |-> shapes[i].value,
          from |-> shapes[i].from, to |-> shapes[i].to,
          timeStamp |-> shapes[i].timeStamp]] : shapes \in SeqsUpTo(TxShapes, MaxTxs)}

\* What requests.get and response.json() can give for a txlist request: a
\* raised exception, a status other than 200, a 200 whose JSON has status
\* "0" (an error message, or "No transactions found" with an empty result),
\* or a 200 with status "1" and the result list.
LedgerResponses ==
    {[raised |-> TRUE, status_code |-> 0, status |-> "", message |-> "", result |-> <<>>],
     [raised |-> FALSE, status_code |-> 500, status |-> "", message |-> "", result |-> <<>>],
     [raised |-> FALSE, status_code |-> 200, status |-> "0", message |-> "NOTOK",
      result |-> <<>>],
     [raised |-> FALSE, status_code |-> 200, status |-> "0",
      message |-> "No transactions found", result |-> <<>>]}
    \cup {[raised |-> FALSE, status_code |-> 200, status |-> "1", message |-> "OK",
           result |-> txs] : txs \in TxLists}

\* datetime.strftime("%Y-%m-%d %H:%M:%S") of a timestamp in whole seconds
Strftime(timeStamp) == ToString(timeStamp)

\* get_pulsechain_wallet(wallet_address) when the ledger answers `response`.
\* With status "1" and an empty result the empty DataFrame has no
\* "timeStamp" column: the KeyError is caught and None is returned.
GetPulsechainWallet(response) ==
    IF response.raised THEN None
    ELSE IF response.status_code # 200 THEN None
    ELSE IF response.status # "1" THEN None
    ELSE IF Len(response.result) = 0 THEN None
    ELSE Some([i \in 1..Len(response.result) |->
                  LET tx == response.result[i]
                  IN  [hash |-> tx.hash, value |-> tx.value,
                       value_eth |-> Num(tx.value, 100),
                       from |-> tx.from, to |-> tx.to, timeStamp |-> tx.timeStamp,
                       datetime |-> tx.timeStamp]])

\* the row check_wallet_activity takes as the latest transaction
LatestTx(transactions) == transactions[1]

\* the summary and the printed alerts of check_wallet_activity for a
\* non-empty transaction frame
WalletSummary(wallet_name, wallet_address, transactions, threshold) ==
    LET latest_tx == LatestTx(transactions)
        incoming_txs ==
            SelectSeq(transactions, LAMBDA tx : Lower(tx.to) = Lower(wallet_address))
        outgoing_txs ==
            SelectSeq(transactions, LAMBDA tx : Lower(tx.from) = Lower(wallet_address))
        large_txs ==
            SelectSeq(transactions,
                      LAMBDA tx : FGt(Num(Abs(tx.value_eth[1]), tx.value_eth[2]), threshold))
    IN  [summary |->
            [wallet |-> IF wallet_name # "" THEN wallet_name ELSE wallet_address,
             total_transactions |-> Len(transactions),
             incoming_transactions |-> Len(incoming_txs),
             outgoing_transactions |-> Len(outgoing_txs),
             large_transactions |-> Len(large_txs),
             latest_transaction |->
                 [hash |-> latest_tx.hash, value |-> latest_tx.value_eth,
                  from |-> latest_tx.from, to |-> latest_tx.to,
                  timestamp |-> Strftime(latest_tx.datetime)]],
         printed |->
            [i \in 1..Len(large_txs) |->
                [direction |-> IF Lower(large_txs[i].from) = Lower(wallet_address)
                               THEN "outgoing" ELSE "incoming",
                 value |-> Num(Abs(large_txs[i].value_eth[1]), large_txs[i].value_eth[2]),
                 datetime |-> Strftime(large_txs[i].datetime)]]]

\* The transactions the returned summary carries, each with the direction it
\* is tagged with ("" when it carries none): the summary holds counts, and
\* one transaction, the latest, without a direction.  The large transactions
\* and their directions go to the printed alerts only.
ReturnedTransactions(summary) ==
    {[hash |-> summary.latest_transaction.hash, direction |-> ""]}

\* the address check_wallet_activity works on: the one configured under
\* wallet_name when there is one, else the wallet_address argument ("" stands
\* for None)
ResolveAddress(configured, wallet_name, wallet_address) ==
    IF wallet_name # "" /\ wallet_name \in DOMAIN configured
    THEN configured[wallet_name]
    ELSE wallet_address

\* check_wallet_activity(wallet_name, wallet_address, threshold) when the
\* ledger would answer `response`: whether the ledger was asked, the value
\* returned, and the alerts printed
CheckWalletActivity(configured, wallet_name, wallet_address, threshold, response) ==
    LET address == ResolveAddress(configured, wallet_name, wallet_address)
        transactions == GetPulsechainWallet(response)
    IN  IF address = ""
        THEN [asked |-> FALSE, ret |-> None, printed |-> <<>>]
        ELSE IF transactions.none \/ Len(transactions.val) = 0
        THEN [asked |-> TRUE, ret |-> None, printed |-> <<>>]
        ELSE LET w == WalletSummary(wallet_name, address, transactions.val, threshold)
             IN  [asked |-> TRUE, ret |-> Some(w.summary), printed |-> w.printed]

\* what the ledger source did in a check_wallet_activity call: "unasked"
\* (no address), "failed" (exception, HTTP error or API error), "empty" (the
\* wallet has no transactions) or "list" (a non-empty list)
SourceOutcome(asked, response) ==
    IF ~asked THEN "unasked"
    ELSE IF response.raised \/ response.status_code # 200 THEN "failed"
    ELSE IF response.status = "1"
         THEN (IF Len(response.result) = 0 THEN "empty" ELSE "list")
    ELSE IF response.message = "No transactions found" THEN "empty"
    ELSE "failed"

-----------------------------------------------------------------------------
(* The tax distribution check (add_project_wallet,                         *)
(* check_token_tax_distribution).                                          *)

\* most days of history the ledger holds for a project wallet
MaxDays == 8

\* seconds in a calendar day
SecondsPerDay == 86400

\* datetime.dt.date of a timestamp in seconds: the day number since the epoch
DateOf(datetime) == datetime \div SecondsPerDay

\* the address of the second project wallet
DevAddress == "0xdef"

\* a transaction of the ledger, before its hash is given
LedgerTx(value, from, to, timeStamp) ==
    [hash |-> "", value |-> value, from |-> from, to |-> to, timeStamp |-> timeStamp]

\* the incoming transactions of the treasury on day d: one on an odd day, two on an even day
IncomingOn(d) ==
    IF d % 2 = 1
    THEN <<LedgerTx(2, "0xdef", "0xabc", d * SecondsPerDay + 60)>>
    ELSE <<LedgerTx(2, "0xdef", "0xabc", d * SecondsPerDay + 60),
           LedgerTx(5, "0xdef", "0xabc", d * SecondsPerDay + 120)>>

\* an outgoing transaction of the treasury on day d
OutgoingOn(d) == <<LedgerTx(10, "0xabc", "0xdef", d * SecondsPerDay + 30)>>

RECURSIVE DayTxs(_, _, _)
\* the transactions of days d..MaxDays + 1, oldest first: incoming ones on
\* the days of `days`, an outgoing one on day out_day (0: none)
DayTxs(days, out_day, d) ==
    IF d > MaxDays + 1 THEN <<>>
    ELSE (IF d = out_day THEN OutgoingOn(d) ELSE <<>>)
         \o (IF d \in days THEN IncomingOn(d) ELSE <<>>)
         \o DayTxs(days, out_day, d + 1)

\* a list in reverse order
Reverse(xs) == [i \in 1..Len(xs) |-> xs[Len(xs) + 1 - i]]

\* the i-th entry of a list gets the hash "h<i>"
WithHashes(xs) == [i \in 1..Len(xs) |-> [xs[i] EXCEPT !.hash = "h" \o ToString(i)]]

\* the histories of the treasury wallet, oldest first or newest first
TreasuryHistories ==
    {WithHashes(IF newest_first THEN Reverse(DayTxs(days, out_day, 1))
                ELSE DayTxs(days, out_day, 1)) :
        days \in SUBSET (1..MaxDays), out_day \in 0..(MaxDays + 1),
        newest_first \in BOOLEAN}

\* the histories of the second wallet: nothing, one incoming or one outgoing transaction
DevHistories ==
    {<<>>,
     WithHashes(<<LedgerTx(5, "0xabc", "0xdef", SecondsPerDay + 60)>>),
     WithHashes(<<LedgerTx(5, "0xdef", "0xabc", SecondsPerDay + 60)>>)}

\* what the ledger source can answer to a txlist request for a project
\* wallet: a failure, or the list of one of the wallet's histories
ProjectLedgerResponses(wallet_address) ==
    {r \in LedgerResponses : r.status # "1"}
    \cup {[raised |-> FALSE, status_code |-> 200, status |-> "1", message |-> "OK",
           result |-> txs] :
             txs \in IF Lower(wallet_address) = "0xabc" THEN TreasuryHistories
                     ELSE DevHistories}

\* a filter that lets every transaction through
IsIncoming_Any(tx, wallet_address) == TRUE

\* transactions["to"].str.lower() == wallet_address.lower()
IsIncoming(tx, wallet_address) == Lower(tx.to) = Lower(wallet_address)

\* the first seven keys of the daily series
LastDates_Earliest(dates) == {d \in dates : Cardinality({e \in dates : e < d}) < 7}

\* the keys of daily_tax.tail(7): the last seven of the sorted group keys
LastDates(dates) == {d \in dates : Cardinality({e \in dates : e > d}) < 7}

RECURSIVE SumOver(_, _)
\* the sum of a series indexed by a set of dates
SumOver(series, dates) ==
    IF dates = {} THEN Int2Num(0)
    ELSE LET d == CHOOSE e \in dates : \A f \in dates : e <= f
         IN  FAdd(series[d], SumOver(series, dates \ {d}))

\* the entry of a project wallet with at least one incoming transaction
TaxEntry(incoming_txs) ==
    LET dates == {DateOf(incoming_txs[i].datetime) : i \in 1..Len(incoming_txs)}
        daily_tax ==
            [d \in dates |->
                LET rows == SelectSeq(incoming_txs, LAMBDA tx : DateOf(tx.datetime) = d)
                IN  FSum([i \in 1..Len(rows) |-> rows[i].value_eth])]
    IN  [total_collected |->
            FSum([i \in 1..Len(incoming_txs) |-> incoming_txs[i].value_eth]),
         avg_daily_collection |->
            FDiv(SumOver(daily_tax, dates), Int2Num(Cardinality(dates))),
         last_7_days |-> [d \in LastDates(dates) |-> daily_tax[d]]]

\* the incoming transactions of the i-th project wallet, or None when the
\* loop body adds no entry for it (no transactions, or none incoming)
IncomingOf(wallet_info, response) ==
    LET transactions == GetPulsechainWallet(response)
    IN  IF transactions.none \/ Len(transactions.val) = 0 THEN None
        ELSE LET incoming_txs ==
                    SelectSeq(transactions.val,
                              LAMBDA tx : IsIncoming(tx, wallet_info.address))
             IN  IF Len(incoming_txs) > 0 THEN Some(incoming_txs) ELSE None

\* check_token_tax_distribution(token_id) when the ledger answers
\* responses[i] for the i-th project wallet.  The distribution is keyed by
\* wallet name: of two wallets of one name the later entry stays.
CheckTokenTaxDistribution(pw, rates, token_id, responses, clock) ==
    IF token_id \notin DOMAIN pw \/ Len(pw[token_id]) = 0 THEN None
    ELSE LET infos == pw[token_id]
             with_entry ==
                 {i \in 1..Len(infos) : ~IncomingOf(infos[i], responses[i]).none}
             last_of(name) ==
                 CHOOSE i \in with_entry :
                     /\ infos[i].name = name
                     /\ \A j \in with_entry : infos[j].name = name => j <= i
         IN  Some([token |-> token_id,
                   tax_rate |-> TaxRateOf(rates, token_id),
                   distribution |->
                       [name \in {infos[i].name : i \in with_entry} |->
                           TaxEntry(IncomingOf(infos[last_of(name)],
                                               responses[last_of(name)]).val)],
                   timestamp |-> clock])

-----------------------------------------------------------------------------
(* The complete health check (run_health_check). *)

\* The locals of run_health_check at its start: the report with its
\* timestamp and two empty maps.  `visited` is history: the tokens and
\* wallets evaluated so far and whether the evaluation returned a report.
HcBegin(clock) ==
    [pc |-> "tokens", i |-> 1, timestamp |-> clock,
     tokens |-> <<>>, wallets |-> <<>>, visited |-> <<>>]

\* the position after the i-th entry of a loop is done, or before the first
\* one (i = 0): the next token, then the next wallet, then the return
HcAdvance(h, token_list, wallet_names) ==
    IF h.pc = "tokens" /\ h.i < Len(token_list) THEN [h EXCEPT !.i = h.i + 1]
    ELSE IF h.pc = "tokens" /\ Len(wallet_names) > 0 THEN [h EXCEPT !.pc = "wallets", !.i = 1]
    ELSE IF h.pc = "tokens" THEN [h EXCEPT !.pc = "done"]
    ELSE IF h.i < Len(wallet_names) THEN [h EXCEPT !.i = h.i + 1]
    ELSE [h EXCEPT !.pc = "done"]

\* the body of the token loop: `if token_health:` the report gets an entry
HcAfterToken(h, token, token_health) ==
    IF token_health.none
    THEN [h EXCEPT !.visited = Append(h.visited,
                                      [kind |-> "token", id |-> token, ok |-> FALSE])]
    ELSE [h EXCEPT !.tokens = [t \in DOMAIN h.tokens \cup {token} |->
                                  IF t = token THEN token_health.val ELSE h.tokens[t]],
                   !.visited = Append(h.visited,
                                      [kind |-> "token", id |-> token, ok |-> TRUE])]

\* the body of the wallet loop: `if wallet_activity:` the report gets an entry
HcAfterWallet(h, name, wallet_activity) ==
    IF wallet_activity.none
    THEN [h EXCEPT !.visited = Append(h.visited,
                                      [kind |-> "wallet", id |-> name, ok |-> FALSE])]
    ELSE [h EXCEPT !.wallets = [n \in DOMAIN h.wallets \cup {name} |->
                                   IF n = name THEN wallet_activity.val ELSE h.wallets[n]],
                   !.visited = Append(h.visited,
                                      [kind |-> "wallet", id |-> name, ok |-> TRUE])]

-----------------------------------------------------------------------------
(* The command-line programs (main.py, finvesta_monitor.py). *)

\* the keys of TOKENS in config.py
ConfigTokens == {"hex", "pls", "finvesta"}

\* the keys of FINVESTA_TOKENS in finvesta_tokens.py
FinvestaTokens ==
    {"beast", "dominance", "ese_baby", "flexboost", "flexmas", "missor", "nana",
     "raise_it_up", "remember", "savant", "sursum", "wgpp", "mnemonics", "gas_money",
     "finvesta"}

\* The command lines of the model ("" stands for an option not given):
\* --token with a token of both tables, of TOKENS only, or of neither;
\* --wallet with a configured name or another string; --config with a file
\* that loads ("ok") or fails to load ("bad"); --finvesta.  The options
\* --sustainability, --plot and --output are not given.
CliArgs ==
    [token : {"", "hex", "finvesta", "nosuch"}, wallet : {"", "treasury", "nosuch"},
     config : {"", "ok", "bad"}, finvesta : BOOLEAN]

\* The exit status of main.py: sys.exit(1) when the --config file fails to
\* load, and in the --finvesta branch when use_finvesta is false; a main()
\* that returns exits with 0.
MainExit(args) ==
    LET use_finvesta == args.finvesta \/ "finvesta" \in ConfigTokens
    IN  IF args.config = "bad" THEN 1
        ELSE IF args.token # "" THEN 0
        ELSE IF args.wallet # "" THEN 0
        ELSE IF args.finvesta THEN (IF ~use_finvesta THEN 1 ELSE 0)
        ELSE 0

\* what main.py prints for --token or --wallet: the value of
\* analyze_token_health, or of check_wallet_activity called with the name
\* when it is a key of WALLETS and with the string as an address otherwise
MainResult(args, configured, clock, response, ledger_response) ==
    IF args.token # ""
    THEN AnalyzeTokenHealth(<<>>, args.token, response, clock).ret
    ELSE IF args.wallet \in DOMAIN configured
    THEN CheckWalletActivity(configured, args.wallet, "", Num(5, 100), ledger_response).ret
    ELSE CheckWalletActivity(configured, "", args.wallet, Num(5, 100), ledger_response).ret

\* analyze_token of finvesta_monitor.py without sustainability and plot:
\* None for a token that is not in FINVESTA_TOKENS, else the health report
AnalyzeToken(token_id, clock, response) ==
    IF token_id \notin FinvestaTokens THEN None
    ELSE AnalyzeTokenHealth(<<>>, token_id, response, clock).ret

\* the exit status of finvesta_monitor.py: main() always returns
FinvestaMonitorExit(args) == 0

-----------------------------------------------------------------------------
(* The state machine. *)

EcoIdle == [EcoBegin(<<>>, 0) EXCEPT !.pc = "idle"]

NoGet ==
    [token_id |-> "", days |-> 0, vs_currency |-> "", cache_key |-> "",
     requested |-> FALSE, raised |-> FALSE, status_code |-> 0, ret |-> None]

NoHealth == [token_id |-> "", data |-> None, ret |-> None]

NoWallet ==
    [wallet_name |-> "", wallet_address |-> "", threshold |-> Int2Num(0), source |-> "none",
     transactions |-> <<>>, ret |-> None, printed |-> <<>>]

\* no check_sustainability call has been made
NoSust ==
    [called |-> FALSE, token_id |-> "", daily_volume |-> Int2Num(0),
     tax_rate |-> Int2Num(0), total_supply_value |-> Int2Num(0),
     daily_roi |-> Int2Num(0), ret |-> None]

\* run_health_check is not running
HcIdle == [HcBegin(0) EXCEPT !.pc = "idle"]

\* no check_token_tax_distribution call has just returned
NoTax ==
    [called |-> FALSE, token_id |-> "", wallets |-> <<>>, histories |-> <<>>, ret |-> None]

\* no command-line run has just exited
NoCli ==
    [program |-> "", args |-> [token |-> "", wallet |-> "", config |-> "", finvesta |-> FALSE],
     result |-> None, exit_status |-> 0]

\* the threads of the model
Threads == 1..MaxThreads

\* a thread that is not in a get_token_data call
IdleThread ==
    [pc |-> "idle", token_id |-> "", cache_key |-> "", result |-> None, ret |-> None]

\* No thread is in a call.  cache0 and order are history: the cache when the
\* first call of the round began, and the threads in the order of their stores.
NoThreads == [cache0 |-> <<>>, order |-> <<>>, th |-> [t \in Threads |-> IdleThread]]

\* the state after FinvestaMonitor() is constructed
Init ==
    /\ data_cache = <<>>
    /\ tokens = <<"hex", "pls", "finvesta">>
    /\ tax_rates = [t \in {"finvesta"} |-> Num(5, 100)]
    /\ roi_expectations = [t \in {"finvesta"} |-> Num(1, 100)]
    /\ wallets = <<>>
    /\ now = 0
    /\ last_get = NoGet
    /\ last_health = NoHealth
    /\ eco = EcoIdle
    /\ last_wallet = NoWallet
    /\ wallet_outcomes = [source \in {"unasked", "failed", "empty"} |-> {}]
    /\ wallet_order = <<>>
    /\ project_wallets = [t \in {"finvesta"} |-> <<>>]
    /\ last_sust = NoSust
    /\ hc = HcIdle
    /\ tax = NoTax
    /\ last_cli = NoCli
    /\ par = NoThreads

\* no call of the single-threaded program is in progress
AtRest == eco.pc \in {"idle", "done"} /\ hc.pc = "idle"

\* time passes
Tick ==
    /\ now < MaxClock
    /\ now' = now + 1
    /\ UNCHANGED <<data_cache, tokens, tax_rates, roi_expectations, wallets,
                   last_get, last_health, eco, last_wallet,
                   wallet_outcomes,
                   wallet_order, project_wallets, last_sust, hc, tax, last_cli, par>>

\* the points of the longer series: one price, and volumes that put the
\* current volume below, at and above half and twice the average
VolumePoints == {<<2, 0>>, <<2, 1>>, <<2, 3>>, <<2, 6>>}

\* the answers of the market data source with series of up to MaxLen + 1 points
LongResponses ==
    {r \in Responses : r.raised \/ r.status_code # 200}
    \cup {[raised |-> FALSE, status_code |-> 200, has_keys |-> TRUE,
           prices |-> PriceList(ps), total_volumes |-> VolumeList(ps)] :
             ps \in SeqsUpTo(VolumePoints, MaxLen + 1)}

\* what the market data source can answer to a call that finds no cached
\* entry; on a hit no request is made and one answer stands for all
LongAnswers(cache, token_id, days, vs_currency) ==
    IF CacheKey(token_id, days, vs_currency) \in DOMAIN cache
    THEN Answers(cache, token_id, days, vs_currency)
    ELSE LongResponses

\* What the ledger source can answer to a check_wallet_activity call.  With
\* no address the ledger is not asked and no answer is read: one stands for all.
LedgerAnswers(configured, wallet_name, wallet_address) ==
    IF ResolveAddress(configured, wallet_name, wallet_address) = ""
    THEN {[raised |-> TRUE, status_code |-> 0, status |-> "", message |-> "",
           result |-> <<>>]}
    ELSE LedgerResponses

\* a call of get_token_data
GetTokenDataCall(token_id, days, vs_currency) ==
    /\ AtRest
    /\ \E response \in Answers(data_cache, token_id, days, vs_currency) :
          LET g == GetTokenData(data_cache, token_id, days, vs_currency, response)
          IN  /\ data_cache' = g.cache
              /\ last_get' = GetRecord(token_id, days, vs_currency, response, g)
    /\ UNCHANGED <<tokens, tax_rates, roi_expectations, wallets, now,
                   last_health, eco, last_wallet,
                   wallet_outcomes,
                   wallet_order, project_wallets, last_sust, hc, tax, last_cli, par>>

\* a call of get_token_data, when the market data source answers a request
\* with one of `responses`
GetTokenDataAmong(token_id, days, vs_currency, responses) ==
    /\ AtRest
    /\ \E response \in AnswersAmong(data_cache, token_id, days, vs_currency, responses) :
          LET g == GetTokenData(data_cache, token_id, days, vs_currency, response)
          IN  /\ data_cache' = g.cache
              /\ last_get' = GetRecord(token_id, days, vs_currency, response, g)
    /\ UNCHANGED <<tokens, tax_rates, roi_expectations, wallets, now,
                   last_health, eco, last_wallet,
                   wallet_outcomes,
                   wallet_order, project_wallets, last_sust, hc, tax, last_cli, par>>

\* a call of analyze_token_health
AnalyzeTokenHealthCall(token_id) ==
    /\ AtRest
    /\ \E response \in Answers(data_cache, token_id, 30, "usd") :
          LET h == AnalyzeTokenHealth(data_cache, token_id, response, now)
          IN  /\ data_cache' = h.cache
              /\ last_get' = h.get
              /\ last_health' = [token_id |-> token_id, data |-> h.get.ret, ret |-> h.ret]
    /\ UNCHANGED <<tokens, tax_rates, roi_expectations, wallets, now, eco, last_wallet,
                   wallet_outcomes,
                   wallet_order, project_wallets, last_sust, hc, tax, last_cli, par>>

\* set_token_roi_expectation(token_id, daily_roi)
SetTokenRoiExpectation(token_id, daily_roi) ==
    /\ AtRest
    /\ roi_expectations' = [t \in DOMAIN roi_expectations \cup {token_id} |->
                               IF t = token_id THEN daily_roi ELSE roi_expectations[t]]
    /\ UNCHANGED <<data_cache, tokens, tax_rates, wallets, now,
                   last_get, last_health, eco, last_wallet,
                   wallet_outcomes,
                   wallet_order, project_wallets, last_sust, hc, tax, last_cli, par>>

\* set_token_tax_rate(token_id, tax_rate)
SetTokenTaxRate(token_id, tax_rate) ==
    /\ AtRest
    /\ tax_rates' = [t \in DOMAIN tax_rates \cup {token_id} |->
                        IF t = token_id THEN tax_rate ELSE tax_rates[t]]
    /\ UNCHANGED <<data_cache, tokens, roi_expectations, wallets, now,
                   last_get, last_health, eco, last_wallet,
                   wallet_outcomes,
                   wallet_order, project_wallets, last_sust, hc, tax, last_cli, par>>

\* analyze_multi_token_ecosystem(token_ids) is called; with no token to
\* analyze it returns at once
EcoStart(token_ids) ==
    /\ AtRest
    /\ eco' = IF token_ids = <<>> THEN EcoFinish(EcoBegin(token_ids, now))
              ELSE EcoBegin(token_ids, now)
    /\ UNCHANGED <<data_cache, tokens, tax_rates, roi_expectations, wallets, now,
                   last_get, last_health, last_wallet,
                   wallet_outcomes,
                   wallet_order, project_wallets, last_sust, hc, tax, last_cli, par>>

\* the loop body's call of analyze_token_health, when the market data
\* source answers with one of `responses`
EcoHealthOf(responses) ==
    /\ eco.pc = "health"
    /\ \E response \in AnswersAmong(data_cache, eco.token_ids[eco.i], 30, "usd", responses) :
          LET token_id == eco.token_ids[eco.i]
              h == AnalyzeTokenHealth(data_cache, token_id, response, now)
          IN  /\ data_cache' = h.cache
              /\ last_get' = h.get
              /\ last_health' = [token_id |-> token_id, data |-> h.get.ret, ret |-> h.ret]
              /\ eco' = EcoAfterHealth(eco, h.ret)
    /\ UNCHANGED <<tokens, tax_rates, roi_expectations, wallets, now, last_wallet,
                   wallet_outcomes,
                   wallet_order, project_wallets, last_sust, hc, tax, last_cli, par>>

\* the loop body's call of analyze_token_health
EcoHealth == EcoHealthOf(Responses)

\* the loop body's call of check_token_sustainability, when the market data
\* source answers with one of `responses`
EcoSustainabilityOf(responses) ==
    /\ eco.pc = "sustainability"
    /\ \E response \in AnswersAmong(data_cache, eco.token_ids[eco.i], 30, "usd", responses) :
          LET token_id == eco.token_ids[eco.i]
              s == CheckTokenSustainability(data_cache, tax_rates, roi_expectations,
                                            token_id, TRUE, response, now)
          IN  /\ data_cache' = s.cache
              /\ last_get' = s.get
              /\ eco' = EcoAfterSustainability(eco, s.ret)
    /\ UNCHANGED <<tokens, tax_rates, roi_expectations, wallets, now,
                   last_health, last_wallet,
                   wallet_outcomes,
                   wallet_order, project_wallets, last_sust, hc, tax, last_cli, par>>

\* the loop body's call of check_token_sustainability
EcoSustainability == EcoSustainabilityOf(Responses)

\* the caller has taken the report analyze_multi_token_ecosystem returned
EcoReturned ==
    /\ eco.pc = "done"
    /\ eco' = EcoIdle
    /\ UNCHANGED <<data_cache, tokens, tax_rates, roi_expectations, wallets, now,
                   last_get, last_health, last_wallet, wallet_outcomes,
                   wallet_order, project_wallets, last_sust, hc, tax, last_cli, par>>

\* run_health_check() is called, with no output file
HcStart ==
    /\ eco.pc = "idle"
    /\ hc.pc = "idle"
    /\ hc' = IF Len(tokens) > 0 THEN HcBegin(now)
             ELSE HcAdvance([HcBegin(now) EXCEPT !.i = 0], tokens, wallet_order)
    /\ UNCHANGED <<data_cache, tokens, tax_rates, roi_expectations, wallets, now,
                   last_get, last_health, eco, last_wallet, wallet_outcomes,
                   wallet_order, project_wallets, last_sust, tax, last_cli, par>>

\* one iteration of the token loop, when the market data source answers
\* with one of `responses`
HcToken(responses) ==
    /\ hc.pc = "tokens"
    /\ \E response \in AnswersAmong(data_cache, tokens[hc.i], 30, "usd", responses) :
          LET token == tokens[hc.i]
              h == AnalyzeTokenHealth(data_cache, token, response, now)
          IN  /\ data_cache' = h.cache
              /\ last_get' = h.get
              /\ last_health' = [token_id |-> token, data |-> h.get.ret, ret |-> h.ret]
              /\ hc' = HcAdvance(HcAfterToken(hc, token, h.ret), tokens, wallet_order)
    /\ UNCHANGED <<tokens, tax_rates, roi_expectations, wallets, now, eco, last_wallet,
                   wallet_outcomes,
                   wallet_order, project_wallets, last_sust, tax, last_cli, par>>

\* one iteration of the wallet loop, when the ledger source answers with
\* one of `responses`
HcWallet(responses) ==
    /\ hc.pc = "wallets"
    /\ \E response \in LedgerAnswers(wallets, wallet_order[hc.i], "") \cap responses :
          LET name == wallet_order[hc.i]
              c == CheckWalletActivity(wallets, name, "", Num(5, 100), response)
              source == SourceOutcome(c.asked, response)
          IN  /\ last_wallet' =
                     [wallet_name |-> name,
                      wallet_address |-> ResolveAddress(wallets, name, ""),
                      threshold |-> Num(5, 100),
                      source |-> source,
                      transactions |-> IF c.asked THEN response.result ELSE <<>>,
                      ret |-> c.ret, printed |-> c.printed]
              /\ wallet_outcomes' =
                     IF source \in DOMAIN wallet_outcomes
                     THEN [wallet_outcomes EXCEPT ![source] = @ \cup {c.ret}]
                     ELSE wallet_outcomes
              /\ hc' = HcAdvance(HcAfterWallet(hc, name, c.ret), tokens, wallet_order)
    /\ UNCHANGED <<data_cache, tokens, tax_rates, roi_expectations, wallets, now,
                   last_get, last_health, eco,
                   wallet_order, project_wallets, last_sust, tax, last_cli, par>>

\* the caller has taken the report run_health_check returned
HcReturned ==
    /\ hc.pc = "done"
    /\ hc' = HcIdle
    /\ UNCHANGED <<data_cache, tokens, tax_rates, roi_expectations, wallets, now,
                   last_get, last_health, eco, last_wallet, wallet_outcomes,
                   wallet_order, project_wallets, last_sust, tax, last_cli, par>>

\* add_wallet(name, address)
AddWallet(name, address) ==
    /\ AtRest
    /\ wallets' = [n \in DOMAIN wallets \cup {name} |->
                      IF n = name THEN address ELSE wallets[n]]
    /\ wallet_order' = IF name \in DOMAIN wallets THEN wallet_order
                       ELSE Append(wallet_order, name)
    /\ UNCHANGED <<data_cache, tokens, tax_rates, roi_expectations, now,
                   last_get, last_health, eco, last_wallet,
                   wallet_outcomes,
                   project_wallets, last_sust, hc, tax, last_cli, par>>

\* a call of check_wallet_activity, up to its return
CheckWalletActivityCall(wallet_name, wallet_address, threshold) ==
    /\ AtRest
    /\ last_wallet = NoWallet
    /\ \E response \in LedgerAnswers(wallets, wallet_name, wallet_address) :
          LET c == CheckWalletActivity(wallets, wallet_name, wallet_address,
                                       threshold, response)
              source == SourceOutcome(c.asked, response)
          IN  /\ last_wallet' =
                     [wallet_name |-> wallet_name,
                      wallet_address |-> ResolveAddress(wallets, wallet_name, wallet_address),
                      threshold |-> threshold,
                      source |-> source,
                      transactions |-> IF c.asked THEN response.result ELSE <<>>,
                      ret |-> c.ret, printed |-> c.printed]
              /\ wallet_outcomes' =
                     IF source \in DOMAIN wallet_outcomes
                     THEN [wallet_outcomes EXCEPT ![source] = @ \cup {c.ret}]
                     ELSE wallet_outcomes
    /\ UNCHANGED <<data_cache, tokens, tax_rates, roi_expectations, wallets, now,
                   last_get, last_health, eco,
                   wallet_order, project_wallets, last_sust, hc, tax, last_cli, par>>

\* the caller has taken the value check_wallet_activity returned
WalletReturned ==
    /\ last_wallet # NoWallet
    /\ last_wallet' = NoWallet
    /\ UNCHANGED <<data_cache, tokens, tax_rates, roi_expectations, wallets, now,
                   last_get, last_health, eco, wallet_outcomes,
                   wallet_order, project_wallets, last_sust, hc, tax, last_cli, par>>

\* a call of check_sustainability
CheckSustainabilityCall(token_id, daily_volume, tax_rate, total_supply_value, daily_roi) ==
    /\ AtRest
    /\ last_sust' =
           [called |-> TRUE, token_id |-> token_id, daily_volume |-> daily_volume,
            tax_rate |-> tax_rate, total_supply_value |-> total_supply_value,
            daily_roi |-> daily_roi,
            ret |-> Some(CheckSustainability(token_id, daily_volume, tax_rate,
                                             total_supply_value, daily_roi, now))]
    /\ UNCHANGED <<data_cache, tokens, tax_rates, roi_expectations, wallets, now,
                   last_get, last_health, eco, last_wallet, wallet_outcomes,
                   wallet_order, project_wallets, hc, tax, last_cli, par>>

\* a call of analyze_token_health when the market data source returns the
\* longer series of LongAnswers
AnalyzeLongSeriesCall(token_id) ==
    /\ AtRest
    /\ \E response \in LongAnswers(data_cache, token_id, 30, "usd") :
          LET h == AnalyzeTokenHealth(data_cache, token_id, response, now)
          IN  /\ data_cache' = h.cache
              /\ last_get' = h.get
              /\ last_health' = [token_id |-> token_id, data |-> h.get.ret, ret |-> h.ret]
    /\ UNCHANGED <<tokens, tax_rates, roi_expectations, wallets, now, eco, last_wallet,
                   wallet_outcomes,
                   wallet_order, project_wallets, last_sust, hc, tax, last_cli, par>>

\* add_project_wallet(token_id, wallet_name, wallet_address)
AddProjectWallet(token_id, wallet_name, wallet_address) ==
    LET name == token_id \o "_" \o wallet_name
    IN  /\ AtRest
        /\ project_wallets' =
               [t \in DOMAIN project_wallets \cup {token_id} |->
                   IF t = token_id
                   THEN Append(IF t \in DOMAIN project_wallets THEN project_wallets[t]
                               ELSE <<>>,
                               [name |-> wallet_name, address |-> wallet_address])
                   ELSE project_wallets[t]]
        /\ wallets' = [n \in DOMAIN wallets \cup {name} |->
                          IF n = name THEN wallet_address ELSE wallets[n]]
        /\ wallet_order' = IF name \in DOMAIN wallets THEN wallet_order
                           ELSE Append(wallet_order, name)
        /\ UNCHANGED <<data_cache, tokens, tax_rates, roi_expectations, now,
                       last_get, last_health, eco, last_wallet, wallet_outcomes,
                       last_sust, hc, tax, last_cli, par>>

\* a project wallet is added for "finvesta" under a name not used before
AddNewProjectWallet(wallet_name, wallet_address) ==
    /\ \A i \in 1..Len(project_wallets["finvesta"]) :
          project_wallets["finvesta"][i].name # wallet_name
    /\ AddProjectWallet("finvesta", wallet_name, wallet_address)

RECURSIVE ProjectLedgerAnswers(_)
\* what the ledger source can answer to the requests of one
\* check_token_tax_distribution call, one answer for each project wallet
ProjectLedgerAnswers(infos) ==
    IF infos = <<>> THEN {<<>>}
    ELSE {<<r>> \o rest : r \in ProjectLedgerResponses(Head(infos).address),
                          rest \in ProjectLedgerAnswers(Tail(infos))}

\* a call of check_token_tax_distribution, up to its return
TaxDistributionCall(token_id) ==
    /\ AtRest
    /\ tax = NoTax
    /\ LET infos == IF token_id \in DOMAIN project_wallets
                    THEN project_wallets[token_id] ELSE <<>>
       IN  \E responses \in ProjectLedgerAnswers(infos) :
              tax' = [called |-> TRUE, token_id |-> token_id, wallets |-> infos,
                      histories |-> [i \in 1..Len(infos) |-> responses[i].result],
                      ret |-> CheckTokenTaxDistribution(project_wallets, tax_rates,
                                                        token_id, responses, now)]
    /\ UNCHANGED <<data_cache, tokens, tax_rates, roi_expectations, wallets, now,
                   last_get, last_health, eco, last_wallet, wallet_outcomes,
                   wallet_order, project_wallets, last_sust, hc, last_cli, par>>

\* the caller has taken the value check_token_tax_distribution returned
TaxReturned ==
    /\ tax # NoTax
    /\ tax' = NoTax
    /\ UNCHANGED <<data_cache, tokens, tax_rates, roi_expectations, wallets, now,
                   last_get, last_health, eco, last_wallet, wallet_outcomes,
                   wallet_order, project_wallets, last_sust, hc, last_cli, par>>

\* A run of main.py in a process of its own, up to its exit.  WALLETS is
\* the configuration the monitor's wallets were loaded from.  The report of
\* a run without --token and --wallet is not recorded.
MainRun(args) ==
    /\ AtRest
    /\ last_cli = NoCli
    /\ \E response \in (IF args.config # "bad" /\ args.token # ""
                         THEN Responses ELSE {r \in Responses : r.raised}),
          ledger_response \in (IF args.config # "bad" /\ args.token = ""
                                THEN LedgerAnswers(wallets, "", args.wallet)
                                ELSE LedgerAnswers(wallets, "", "")) :
          last_cli' =
              [program |-> "main", args |-> args,
               result |-> IF args.config # "bad" /\ (args.token # "" \/ args.wallet # "")
                          THEN MainResult(args, wallets, now, response, ledger_response)
                          ELSE None,
               exit_status |-> MainExit(args)]
    /\ UNCHANGED <<data_cache, tokens, tax_rates, roi_expectations, wallets, now,
                   last_get, last_health, eco, last_wallet, wallet_outcomes,
                   wallet_order, project_wallets, last_sust, hc, tax, par>>

\* a run of finvesta_monitor.py in a process of its own, up to its exit
FinvestaMonitorRun(args) ==
    /\ AtRest
    /\ last_cli = NoCli
    /\ args.wallet = "" /\ args.config = "" /\ ~args.finvesta
    /\ \E response \in (IF args.token \in FinvestaTokens
                         THEN Responses ELSE {r \in Responses : r.raised}) :
          last_cli' =
              [program |-> "finvesta_monitor", args |-> args,
               result |-> IF args.token # "" THEN AnalyzeToken(args.token, now, response)
                          ELSE None,
               exit_status |-> FinvestaMonitorExit(args)]
    /\ UNCHANGED <<data_cache, tokens, tax_rates, roi_expectations, wallets, now,
                   last_get, last_health, eco, last_wallet, wallet_outcomes,
                   wallet_order, project_wallets, last_sust, hc, tax, par>>

\* the exit status has been read
CliExited ==
    /\ last_cli # NoCli
    /\ last_cli' = NoCli
    /\ UNCHANGED <<data_cache, tokens, tax_rates, roi_expectations, wallets, now,
                   last_get, last_health, eco, last_wallet, wallet_outcomes,
                   wallet_order, project_wallets, last_sust, hc, tax, par>>

\* a call of check_token_sustainability, computed in floating-point
\* arithmetic, when the market data source answers a request with one of
\* `responses`
RoundedSustainabilityCall(token_id, responses) ==
    /\ AtRest
    /\ \E response \in AnswersAmong(data_cache, token_id, 30, "usd", responses) :
          LET c == RoundedCheckTokenSustainability(data_cache, tax_rates, roi_expectations,
                                                   token_id, TRUE, response, now)
          IN  /\ data_cache' = c.cache
              /\ last_get' = c.get
              /\ last_sust' =
                     IF c.ret.none THEN [NoSust EXCEPT !.called = TRUE, !.token_id = token_id]
                     ELSE [called |-> TRUE, token_id |-> token_id,
                           daily_volume |-> c.ret.val.daily_volume,
                           tax_rate |-> c.ret.val.tax_rate,
                           total_supply_value |-> c.ret.val.total_supply_value,
                           daily_roi |-> c.ret.val.daily_roi,
                           ret |-> c.ret]
    /\ UNCHANGED <<tokens, tax_rates, roi_expectations, wallets, now,
                   last_health, eco, last_wallet, wallet_outcomes,
                   wallet_order, project_wallets, hc, tax, last_cli, par>>

\* the answers of the market data source to the calls made in threads: a
\* failure, or one of two series of one point
ParallelResponses ==
    {r \in Responses :
        r.raised \/ (r.has_keys /\ Len(r.prices) = 1 /\ Len(r.total_volumes) = 1)}

\* thread t calls get_token_data(token_id) and tests the cache for its key
ThreadCall(t, token_id) ==
    LET cache_key == CacheKey(token_id, 30, "usd")
    IN  /\ eco.pc = "idle" /\ hc.pc = "idle"
        /\ par.th[t].pc = "idle"
        /\ par' = [par EXCEPT
                      !.cache0 = IF \A u \in Threads : par.th[u].pc = "idle"
                                 THEN data_cache ELSE @,
                      !.th[t] = [IdleThread EXCEPT
                                    !.pc = IF CacheHas(data_cache, cache_key)
                                           THEN "read" ELSE "request",
                                    !.token_id = token_id,
                                    !.cache_key = cache_key]]
        /\ UNCHANGED <<data_cache, tokens, tax_rates, roi_expectations, wallets, now,
                       last_get, last_health, eco, last_wallet, wallet_outcomes,
                       wallet_order, project_wallets, last_sust, hc, tax, last_cli>>

\* thread t, having found its key, returns self.data_cache[cache_key]
ThreadRead(t) ==
    /\ par.th[t].pc = "read"
    /\ par' = [par EXCEPT !.th[t].pc = "returned",
                          !.th[t].ret = Some(data_cache[par.th[t].cache_key])]
    /\ UNCHANGED <<data_cache, tokens, tax_rates, roi_expectations, wallets, now,
                   last_get, last_health, eco, last_wallet, wallet_outcomes,
                   wallet_order, project_wallets, last_sust, hc, tax, last_cli>>

\* thread t makes its request and builds `result`, or returns None
ThreadRequest(t) ==
    /\ par.th[t].pc = "request"
    /\ \E response \in ParallelResponses :
          LET result == FetchResult(response)
          IN  par' = IF result.none
                     THEN [par EXCEPT !.th[t].pc = "returned", !.th[t].ret = None]
                     ELSE [par EXCEPT !.th[t].pc = "store", !.th[t].result = result]
    /\ UNCHANGED <<data_cache, tokens, tax_rates, roi_expectations, wallets, now,
                   last_get, last_health, eco, last_wallet, wallet_outcomes,
                   wallet_order, project_wallets, last_sust, hc, tax, last_cli>>

\* thread t stores its result under its key and returns it
ThreadStore(t) ==
    /\ par.th[t].pc = "store"
    /\ data_cache' = CacheStore(data_cache, par.th[t].cache_key, par.th[t].result.val)
    /\ par' = [par EXCEPT !.order = Append(@, t),
                          !.th[t].pc = "returned",
                          !.th[t].ret = par.th[t].result]
    /\ UNCHANGED <<tokens, tax_rates, roi_expectations, wallets, now,
                   last_get, last_health, eco, last_wallet, wallet_outcomes,
                   wallet_order, project_wallets, last_sust, hc, tax, last_cli>>

\* every thread has returned and the caller has taken the values
ThreadsJoined ==
    /\ \A t \in Threads : par.th[t].pc = "returned"
    /\ par' = NoThreads
    /\ UNCHANGED <<data_cache, tokens, tax_rates, roi_expectations, wallets, now,
                   last_get, last_health, eco, last_wallet, wallet_outcomes,
                   wallet_order, project_wallets, last_sust, hc, tax, last_cli>>

Next ==
    \/ \E x \in RoiValues : SetTokenRoiExpectation("finvesta", x)
    \/ \E x \in TaxRateValues : SetTokenTaxRate("finvesta", x)
    \/ \E ids \in TokenLists : EcoStart(ids)
    \/ EcoHealth
    \/ EcoSustainability

\* the ecosystem aggregator, with the rates of one token reconfigured
Spec == Init /\ [][Next]_vars

\* the token health evaluator called on its own, as time passes
NextHealth ==
    \/ Tick
    \/ \E t \in TokenIds : GetTokenDataCall(t, 30, "usd")
    \/ \E t \in TokenIds : AnalyzeTokenHealthCall(t)

SpecHealth == Init /\ [][NextHealth]_vars

\* the wallet names and addresses the model calls check_wallet_activity with
WalletNames == {"", "treasury"}

WalletAddresses == {"", SubjectAddress}

\* the large-transaction thresholds the model passes: the default 0.05
Thresholds == {Num(5, 100)}

\* the wallet activity analyzer
NextWallet ==
    \/ AddWallet("treasury", SubjectAddress)
    \/ \E n \in WalletNames, a \in WalletAddresses, th \in Thresholds :
          CheckWalletActivityCall(n, a, th)
    \/ WalletReturned

SpecWallet == Init /\ [][NextWallet]_vars

\* the arguments the model calls check_sustainability with: a volume and a
\* supply value in dollars, a tax rate and a daily ROI as fractions; negative
\* values are passed too, since the function accepts them
DailyVolumes == {Int2Num(-100), Int2Num(0), Int2Num(100), Int2Num(200)}

SustTaxRates == {Num(-5, 100), Num(0, 100), Num(5, 100), Num(10, 100)}

SupplyValues == {Int2Num(0), Int2Num(500), Int2Num(1000)}

DailyRois == {Num(0, 100), Num(1, 100), Num(2, 100)}

\* the sustainability checker called on its own
NextSustainability ==
    \E v \in DailyVolumes, t \in SustTaxRates, s \in SupplyValues, r \in DailyRois :
        CheckSustainabilityCall("finvesta", v, t, s, r)

SpecSustainability == Init /\ [][NextSustainability]_vars

\* the tax distribution check, for a token with up to two project wallets
NextTax ==
    \/ AddNewProjectWallet("Treasury", SubjectAddress)
    \/ AddNewProjectWallet("Dev", DevAddress)
    \/ \E t \in TokenIds : TaxDistributionCall(t)
    \/ TaxReturned

SpecTax == Init /\ [][NextTax]_vars

\* the answers of the market data source in the batch runs: a failure, or
\* one series of MaxLen points
BatchResponses ==
    {r \in Responses :
        \/ r.raised
        \/ /\ r.has_keys
           /\ r.prices = PriceList([i \in 1..MaxLen |-> <<2, 3>>])
           /\ r.total_volumes = VolumeList([i \in 1..MaxLen |-> <<2, 3>>])}

\* the answers of the ledger source in the batch runs: a failure, no
\* transactions, or a list of one transaction
BatchLedgerResponses ==
    {r \in LedgerResponses :
        \/ r.raised
        \/ r.message = "No transactions found"
        \/ /\ r.status = "1"
           /\ Len(r.result) = 1
           /\ r.result[1].value = 10 /\ r.result[1].timeStamp = 1
           /\ r.result[1].from = "0xdef" /\ r.result[1].to = "0xabc"}

\* The batch runs: the complete health check over the monitor's tokens and
\* up to two wallets, and the ecosystem analysis over a token list.  A run
\* starts when the report of the run before has been taken.
NextBatch ==
    \/ AddWallet("treasury", SubjectAddress)
    \/ AddWallet("dev", DevAddress)
    \/ HcStart
    \/ HcToken(BatchResponses)
    \/ HcWallet(BatchLedgerResponses)
    \/ HcReturned
    \/ \E ids \in TokenLists : EcoStart(ids)
    \/ EcoHealthOf(BatchResponses)
    \/ EcoSustainabilityOf(BatchResponses)
    \/ EcoReturned

\* a loop of a batch run is between two of its iterations
Running == hc.pc \in {"tokens", "wallets"} \/ eco.pc \in {"health", "sustainability"}

\* a step of the running loop: while a loop runs no other action is enabled
LoopStep == Running /\ (hc' # hc \/ eco' # eco)

\* Weak fairness of the loop steps, WF_vars(LoopStep), written out with
\* Running for ENABLED <<LoopStep>>_vars (a running loop always has its next
\* step enabled: every answer set is non-empty).  The loops are sequential
\* code; the assumption is that each request is answered or fails at some
\* time (requests.get is called without a timeout).
LoopFairness == <>[]Running => []<><<LoopStep>>_vars

SpecBatch == Init /\ [][NextBatch]_vars /\ LoopFairness

\* the command-line programs, with the wallet "treasury" configured or not
NextCli ==
    \/ AddWallet("treasury", SubjectAddress)
    \/ \E args \in CliArgs : MainRun(args)
    \/ \E args \in CliArgs : FinvestaMonitorRun(args)
    \/ CliExited

SpecCli == Init /\ [][NextCli]_vars

\* the token health evaluator on series long enough to show every volume verdict
NextSeries == AnalyzeLongSeriesCall("hex")

SpecSeries == Init /\ [][NextSeries]_vars

\* a list names no token twice
NoRepeats(token_ids) ==
    \A i, j \in 1..Len(token_ids) : token_ids[i] = token_ids[j] => i = j

\* The token lists the program hands to analyze_multi_token_ecosystem:
\* self.tokens, which add_token keeps free of repetition, or the keys of
\* FINVESTA_TOKENS.
DistinctTokenLists == {ids \in TokenLists : NoRepeats(ids)}

\* the points of the series in the aggregate runs: prices that rise or fall
\* from one to the next, and volumes that differ
AggregatePoints == {<<1, 1>>, <<2, 3>>}

\* the answers of the market data source in the aggregate runs: a failure,
\* or a series of MaxLen points
AggregateResponses ==
    {r \in Responses : r.raised}
    \cup {[raised |-> FALSE, status_code |-> 200, has_keys |-> TRUE,
           prices |-> PriceList(ps), total_volumes |-> VolumeList(ps)] :
             ps \in {q \in SeqsUpTo(AggregatePoints, MaxLen) : Len(q) = MaxLen}}

\* the ecosystem aggregator over tokens whose series differ
NextAggregate ==
    \/ \E ids \in DistinctTokenLists : EcoStart(ids)
    \/ EcoHealthOf(AggregateResponses)
    \/ EcoSustainabilityOf(AggregateResponses)

SpecAggregate == Init /\ [][NextAggregate]_vars

\* the tax rates set in the status runs: with the daily ROI of 1 % they give
\* the ratios 0, 1, 1.5 and 2 (the default rate of 5 % gives 0.5)
StatusTaxRates == {Num(0, 100), Num(10, 100), Num(15, 100), Num(20, 100)}

\* the ecosystem aggregator over tokens with a series or none, with the tax
\* rate and the daily ROI of one token reconfigured between the runs
NextStatus ==
    \/ \E x \in StatusTaxRates : SetTokenTaxRate("finvesta", x)
    \/ \E x \in RoiValues : SetTokenRoiExpectation("finvesta", x)
    \/ \E ids \in TokenLists : EcoStart(ids)
    \/ EcoHealthOf(BatchResponses)
    \/ EcoSustainabilityOf(BatchResponses)

SpecStatus == Init /\ [][NextStatus]_vars

\* get_token_data called from MaxThreads threads at a time on one monitor
NextParallel ==
    \/ \E t \in Threads, token_id \in TokenIds : ThreadCall(t, token_id)
    \/ \E t \in Threads : ThreadRead(t)
    \/ \E t \in Threads : ThreadRequest(t)
    \/ \E t \in Threads : ThreadStore(t)
    \/ ThreadsJoined

SpecParallel == Init /\ [][NextParallel]_vars

\* the arguments the model calls get_token_data with: token ids and
\* currencies with and without an underscore, and two windows
KeyTokenIds == {"hex", "hex_1"}

KeyDays == {1, 2}

KeyCurrencies == {"usd", "2_usd"}

\* the answers of the market data source in the key runs: a failure, or one series
KeyResponses == {r \in ParallelResponses : r.raised \/ r.prices[1][2] = 2}

\* get_token_data called with every combination of the arguments
NextKeys ==
    \E token_id \in KeyTokenIds, days \in KeyDays, vs_currency \in KeyCurrencies :
        GetTokenDataAmong(token_id, days, vs_currency, KeyResponses)

SpecKeys == Init /\ [][NextKeys]_vars

\* the points of the series in the rounded runs: one price, two volumes
RoundedPoints == {<<1, 1>>, <<1, 7>>}

\* the answers of the market data source in the rounded runs: a failure, or
\* a series of MaxLen points
RoundedResponses ==
    {r \in Responses : r.raised}
    \cup {[raised |-> FALSE, status_code |-> 200, has_keys |-> TRUE,
           prices |-> PriceList(ps), total_volumes |-> VolumeList(ps)] :
             ps \in {q \in SeqsUpTo(RoundedPoints, MaxLen) : Len(q) = MaxLen}}

\* a tax rate and a daily ROI that are floats of every Precision >= 4, the
\* rate exactly ten times the ROI: 15/32 and 3/64
RoundedTaxRates == {Num(15, 32)}

RoundedRois == {Num(3, 64)}

\* check_token_sustainability for two tokens whose rates are 5 % and 1 % or
\* are set to the values above
NextRounded ==
    \/ \E t \in TokenIds, x \in RoundedTaxRates : SetTokenTaxRate(t, x)
    \/ \E t \in TokenIds, x \in RoundedRois : SetTokenRoiExpectation(t, x)
    \/ \E t \in TokenIds : RoundedSustainabilityCall(t, RoundedResponses)

SpecRounded == Init /\ [][NextRounded]_vars

-----------------------------------------------------------------------------
(* Properties of the ecosystem aggregator, under Spec. *)

\* the tokens named in a list
Range(xs) == {xs[j] : j \in 1..Len(xs)}

\* C1: when analyze_multi_token_ecosystem returns, every token that
\* contributed to total_volume, avg_price_change (health_tokens) or
\* sustainability_score (score_tokens) has an entry in the per-token report
\* map: a token absent from the map contributed to none of them.
C1_AbsentTokenContributesNothing ==
    eco.pc = "done" =>
        Range(eco.health_tokens) \cup Range(eco.score_tokens) \subseteq DOMAIN eco.tokens

\* the reports that the claimed sustainability mean runs over: finite ratio
\* and positive required payouts
Qualifies(report) ==
    IsFinite(report.sustainability_ratio) /\ FGt(report.required_payouts, Int2Num(0))

\* the ratios of the qualifying reports of the run, in order
QualifyingRatios(reports) ==
    LET q == SelectSeq(reports, Qualifies)
    IN  [j \in 1..Len(q) |-> q[j].sustainability_ratio]

\* every token behind the sustainability mean has a health report in the
\* map: the run is one in which C1's case did not occur
ScoredAreReported == Range(eco.score_tokens) \subseteq DOMAIN eco.tokens

\* C2: the sustainability_score returned is the mean of sustainability_ratio
\* over exactly the evaluated tokens whose ratio is finite and whose
\* required_payouts > 0 (0 when there is none); no other ratio is averaged.
\* Stated for the runs in which every scored token is in the report map.
C2_ScoreIsMeanOfQualifyingRatios ==
    (eco.pc = "done" /\ ScoredAreReported) =>
        /\ eco.metrics.sustainability_score = MeanOrZero(QualifyingRatios(eco.sust_reports))
        /\ \A j \in 1..Len(eco.sustainability_scores) :
              IsFinite(eco.sustainability_scores[j])

\* C3: when every evaluated token has required_payouts = 0 (or none was
\* evaluated) the sustainability_score returned is 0, and when no token has a
\* health report avg_price_change is 0.  Stated for the runs in which every
\* scored token is in the report map.
C3_NoQualifierAveragesToZero ==
    (eco.pc = "done" /\ ScoredAreReported) =>
        /\ (\A j \in 1..Len(eco.sust_reports) :
                eco.sust_reports[j].required_payouts = Int2Num(0))
              => eco.metrics.sustainability_score = Int2Num(0)
        /\ DOMAIN eco.tokens = {} => eco.metrics.avg_price_change = Int2Num(0)

-----------------------------------------------------------------------------
(* Properties of the series cache and the token health evaluator, under   *)
(* SpecHealth.                                                             *)

\* C4: the series cache never holds an empty series, and a fetch that
\* answered 200 with zero data points is returned as no data.
C4_CacheHoldsNoEmptySeries ==
    /\ \A k \in DOMAIN data_cache : Len(data_cache[k]) > 0
    /\ (last_get.requested /\ ~last_get.ret.none) => Len(last_get.ret.val) > 0

\* the step is a get_token_data call (one that repeats the previous call
\* with the same result leaves the state as it is)
GetCalled == last_get' # last_get

\* C5: a cached key stays cached with the same series in every step, and a
\* get_token_data call for a cached key returns that series without
\* invoking the external fetch.
C5_CachedEntryIsKept ==
    [][\A k \in DOMAIN data_cache :
          /\ k \in DOMAIN data_cache'
          /\ data_cache'[k] = data_cache[k]
          /\ (GetCalled /\ last_get'.cache_key = k)
                => (~last_get'.requested /\ last_get'.ret = Some(data_cache[k]))]_vars

\* a get_token_data call has hit the cache where another key is cached too
C5_Witness ==
    /\ ~last_get.requested
    /\ last_get.cache_key \in DOMAIN data_cache
    /\ Cardinality(DOMAIN data_cache) > 1

\* the call recorded ended in a failed fetch: an exception or a status other than 200
FetchFailed(get) == get.requested /\ (get.raised \/ get.status_code # 200)

\* C6: a get_token_data call whose fetch fails leaves the cache unchanged,
\* returns None and stores nothing under its key; and a call for a key that
\* is not cached invokes the fetch, so the call after a failure fetches again.
C6_FailedFetchIsNotCached ==
    [][/\ (GetCalled /\ FetchFailed(last_get'))
             => /\ data_cache' = data_cache
                /\ last_get'.ret = None
                /\ last_get'.cache_key \notin DOMAIN data_cache'
       /\ (GetCalled /\ last_get'.cache_key \notin DOMAIN data_cache)
             => last_get'.requested]_vars

\* a fetch has failed for one key while another key is cached
C6_Witness ==
    /\ FetchFailed(last_get)
    /\ last_get.ret = None
    /\ DOMAIN data_cache # {}
    /\ last_get.cache_key \notin DOMAIN data_cache

\* C7: analyze_token_health returns a report only for a series of at least
\* 2 points; no data, 0 points or 1 point give no report.
C7_ReportNeedsTwoPoints ==
    ~last_health.ret.none => (~last_health.data.none /\ Len(last_health.data.val) >= 2)

\* C8: for a series (of at least 2 points) whose first price is 0,
\* analyze_token_health returns no report.
C8_ZeroFirstPriceGivesNoReport ==
    (/\ ~last_health.data.none
     /\ Len(last_health.data.val) >= 2
     /\ last_health.data.val[1].price = 0) => last_health.ret.none

\* C23: two evaluations of the same series of one token by
\* analyze_token_health return reports that are equal in every field,
\* whatever happened between them (the passing of time included).
C23_ReevaluationGivesSameReport ==
    [][(/\ ~last_health.ret.none
        /\ ~last_health'.ret.none
        /\ last_health'.token_id = last_health.token_id
        /\ last_health'.data = last_health.data)
          => last_health'.ret.val = last_health.ret.val]_vars

-----------------------------------------------------------------------------
(* Properties of the wallet activity analyzer, under SpecWallet. *)

\* the position of the latest transaction of a non-empty list: the first
\* one among those with the maximum timestamp
FirstNewest(txs) ==
    CHOOSE i \in 1..Len(txs) :
        /\ \A j \in 1..Len(txs) : txs[j].timeStamp <= txs[i].timeStamp
        /\ \A j \in 1..(i - 1) : txs[j].timeStamp < txs[i].timeStamp

\* C9: the latest_transaction of the summary is the transaction with the
\* maximum timestamp of the input list, the first of them in input order,
\* whatever the order of the list.
C9_LatestIsNewest ==
    ~last_wallet.ret.none =>
        last_wallet.ret.val.latest_transaction.hash
            = last_wallet.transactions[FirstNewest(last_wallet.transactions)].hash

\* C10: the outcome for a wallet whose source returned an empty list differs
\* from the outcome of a failed ledger fetch and from that of an
\* unresolvable address: no value returned for the one is returned for the
\* others.
C10_EmptyDiffersFromFailure ==
    wallet_outcomes["empty"] \cap (wallet_outcomes["failed"] \cup wallet_outcomes["unasked"]) = {}

\* two spellings of one address
SameWallet(a, b) ==
    \E spellings \in {{"0xabc", "0xAbC"}, {"0xdef"}} : a \in spellings /\ b \in spellings

\* |value / 1e18| is strictly above the threshold (value is in units of 10^16 wei)
IsLarge(tx, threshold) == Abs(tx.value) * threshold[2] > threshold[1] * 100

\* the positions of the large transactions of the last call's input list
LargePositions ==
    {i \in 1..Len(last_wallet.transactions) :
        IsLarge(last_wallet.transactions[i], last_wallet.threshold)}

\* C11: the value check_wallet_activity returns carries every transaction
\* whose absolute normalized value exceeds the threshold, each tagged with its
\* direction relative to the wallet, and not only their number.
C11_LargeTransactionsAreReturned ==
    ~last_wallet.ret.none =>
        \A i \in LargePositions :
            \E e \in ReturnedTransactions(last_wallet.ret.val) :
                /\ e.hash = last_wallet.transactions[i].hash
                /\ e.direction =
                       IF SameWallet(last_wallet.transactions[i].from,
                                     last_wallet.wallet_address)
                       THEN "outgoing" ELSE "incoming"

\* C17: incoming_transactions is the number of transactions whose `to` is the
\* wallet's address compared without regard to case, outgoing_transactions
\* likewise for `from`, and total_transactions is the length of the list.
C17_CountsByDirection ==
    ~last_wallet.ret.none =>
        LET txs == last_wallet.transactions
            summary == last_wallet.ret.val
        IN  /\ summary.total_transactions = Len(txs)
            /\ summary.incoming_transactions =
                   Cardinality({i \in 1..Len(txs) :
                                   SameWallet(txs[i].to, last_wallet.wallet_address)})
            /\ summary.outgoing_transactions =
                   Cardinality({i \in 1..Len(txs) :
                                   SameWallet(txs[i].from, last_wallet.wallet_address)})

\* a summary of two transactions, one incoming and one outgoing, for a
\* wallet whose configured address is spelled unlike the ledger's
C17_Witness ==
    /\ ~last_wallet.ret.none
    /\ last_wallet.wallet_address \notin LedgerAddresses
    /\ last_wallet.ret.val.total_transactions = 2
    /\ last_wallet.ret.val.incoming_transactions = 1
    /\ last_wallet.ret.val.outgoing_transactions = 1

\* C18: large_transactions is the number of transactions whose absolute
\* normalized value is strictly above the threshold; a transaction at or
\* below the threshold is not counted, whatever its direction.
C18_LargeCountIsStrict ==
    ~last_wallet.ret.none =>
        last_wallet.ret.val.large_transactions = Cardinality(LargePositions)

\* a summary over a transaction exactly at the threshold and one above it
C18_Witness ==
    /\ ~last_wallet.ret.none
    /\ last_wallet.ret.val.large_transactions = 1
    /\ \E i \in 1..Len(last_wallet.transactions) :
          Abs(last_wallet.transactions[i].value) * last_wallet.threshold[2]
              = last_wallet.threshold[1] * 100

\* the positions of the large transactions of the last call's input list, in order
LargeSeq ==
    SelectSeq([i \in 1..Len(last_wallet.transactions) |-> i],
              LAMBDA i : i \in LargePositions)

\* C27: every transaction of the list is incoming or outgoing relative to
\* the wallet and not both, so that incoming_transactions +
\* outgoing_transactions = total_transactions (a transfer from the wallet to
\* itself included), and the direction printed for a large transaction is
\* the one it was counted under.
C27_EachTransactionHasOneDirection ==
    ~last_wallet.ret.none =>
        LET txs == last_wallet.transactions
            summary == last_wallet.ret.val
            counted_in(i) == SameWallet(txs[i].to, last_wallet.wallet_address)
            counted_out(i) == SameWallet(txs[i].from, last_wallet.wallet_address)
        IN  /\ summary.incoming_transactions + summary.outgoing_transactions
                   = summary.total_transactions
            /\ Len(last_wallet.printed) = Len(LargeSeq)
            /\ \A j \in 1..Len(LargeSeq) :
                  /\ last_wallet.printed[j].direction = "incoming"
                         <=> counted_in(LargeSeq[j])
                  /\ last_wallet.printed[j].direction = "outgoing"
                         <=> counted_out(LargeSeq[j])

-----------------------------------------------------------------------------
(* Properties of the sustainability checker, under SpecSustainability. *)

\* total_supply_value * daily_roi of the last call is positive / is zero
\* (the denominators of the model's numbers are positive)
PayoutsArePositive == last_sust.total_supply_value[1] * last_sust.daily_roi[1] > 0

PayoutsAreZero == last_sust.total_supply_value[1] * last_sust.daily_roi[1] = 0

\* the number z is the product of x and y
IsProduct(z, x, y) == z[2] # 0 /\ z[1] * (x[2] * y[2]) = (x[1] * y[1]) * z[2]

\* C12: when required_payouts > 0, daily_tax_revenue is daily_volume times
\* tax_rate, required_payouts is total_supply_value times daily_roi, and
\* is_sustainable is true exactly when the revenue is at least the required
\* payouts, which is exactly when the ratio is at least 1: a ratio of
\* exactly 1 counts as sustainable.
C12_SustainableIffRatioAtLeastOne ==
    (last_sust.called /\ PayoutsArePositive) =>
        LET r == last_sust.ret.val
            revenue == r.daily_tax_revenue
            required == r.required_payouts
        IN  /\ IsProduct(revenue, last_sust.daily_volume, last_sust.tax_rate)
            /\ IsProduct(required, last_sust.total_supply_value, last_sust.daily_roi)
            /\ r.is_sustainable <=> revenue[1] * required[2] >= required[1] * revenue[2]
            /\ r.is_sustainable <=>
                   (r.sustainability_ratio[2] > 0
                    /\ r.sustainability_ratio[1] >= r.sustainability_ratio[2])

\* a call whose revenue equals its positive required payouts
C12_Witness ==
    /\ last_sust.called
    /\ PayoutsArePositive
    /\ last_sust.ret.val.sustainability_ratio = <<1, 1>>
    /\ last_sust.ret.val.is_sustainable

\* C13: whenever required_payouts is 0, check_sustainability reports the
\* ratio +inf and is_sustainable true, for every daily_volume and tax_rate,
\* negative ones included.
C13_ZeroPayoutsAreSustainable ==
    (last_sust.called /\ PayoutsAreZero) =>
        /\ last_sust.ret.val.sustainability_ratio = PosInf
        /\ last_sust.ret.val.is_sustainable

-----------------------------------------------------------------------------
(* Properties of the volume health check, under SpecSeries. *)

\* the volumes of the series the last analyze_token_health call evaluated
LastVolumes == [i \in 1..Len(last_health.data.val) |-> last_health.data.val[i].volume]

RECURSIVE SumInts(_)
SumInts(xs) == IF xs = <<>> THEN 0 ELSE xs[1] + SumInts(Tail(xs))

\* the current volume is below half / above twice the average of the series
BelowHalfAverage(xs) == 2 * Len(xs) * xs[Len(xs)] < SumInts(xs)

AboveTwiceAverage(xs) == Len(xs) * xs[Len(xs)] > 2 * SumInts(xs)

\* C14: volume_health is the volume-drop warning exactly when the current
\* volume is below 0.5 times the average, else the high-activity note exactly
\* when it is above 2.0 times the average, else Normal; both comparisons are
\* strict, so a volume of exactly 0.5 or 2.0 times the average is Normal.
C14_VolumeHealthThresholds ==
    ~last_health.ret.none =>
        last_health.ret.val.volume_health =
            IF BelowHalfAverage(LastVolumes) THEN "Warning: Volume drop"
            ELSE IF AboveTwiceAverage(LastVolumes) THEN "High volume activity"
            ELSE "Normal"

\* a report for a series whose current volume is exactly half its positive average
C14_Witness ==
    /\ ~last_health.ret.none
    /\ SumInts(LastVolumes) > 0
    /\ 2 * Len(LastVolumes) * LastVolumes[Len(LastVolumes)] = SumInts(LastVolumes)
    /\ last_health.ret.val.volume_health = "Normal"

-----------------------------------------------------------------------------
(* Properties of the command-line programs, under SpecCli. *)

\* the token or wallet the last command line asks for directly is not in
\* the configuration of its program
RequestUnresolved ==
    \/ /\ last_cli.args.token # ""
       /\ last_cli.args.token \notin
              (IF last_cli.program = "main" THEN ConfigTokens ELSE FinvestaTokens)
    \/ /\ last_cli.program = "main"
       /\ last_cli.args.token = ""
       /\ last_cli.args.wallet # ""
       /\ last_cli.args.wallet \notin DOMAIN wallets

\* C16: a command-line run exits with a non-zero status when the token or
\* wallet it asks for directly cannot be resolved in the configuration, and
\* with zero otherwise (stated for runs whose --config file, if any, loads).
C16_ExitStatusTellsResolution ==
    (last_cli.program # "" /\ last_cli.args.config # "bad") =>
        (last_cli.exit_status # 0 <=> RequestUnresolved)

-----------------------------------------------------------------------------
(* Properties of the tax distribution check, under SpecTax. *)

\* the positions of the incoming transactions in the history of the i-th
\* project wallet of the last call
IncomingPositions(i) ==
    {k \in 1..Len(tax.histories[i]) :
        SameWallet(tax.histories[i][k].to, tax.wallets[i].address)}

\* the calendar date of the k-th transaction of that history
TxDate(i, k) == tax.histories[i][k].timeStamp \div SecondsPerDay

\* the dates on which the i-th wallet has an incoming transaction
IncomingDates(i) == {TxDate(i, k) : k \in IncomingPositions(i)}

RECURSIVE SumValues(_, _)
\* the sum of the raw values at the positions ks of the i-th history
SumValues(i, ks) ==
    IF ks = {} THEN 0
    ELSE LET k == CHOOSE j \in ks : TRUE
         IN  tax.histories[i][k].value + SumValues(i, ks \ {k})

\* C19: last_7_days of a wallet's entry holds at most 7 keys, the 7 latest
\* calendar dates that have an incoming transaction (all of them when there
\* are fewer); a date without an incoming transaction is not a key; and the
\* value at a date is the sum of value_eth over that date's incoming
\* transactions.
C19_LastSevenDays ==
    (tax.called /\ ~tax.ret.none) =>
        \A i \in 1..Len(tax.wallets) :
            tax.wallets[i].name \in DOMAIN tax.ret.val.distribution =>
                LET last_7_days == tax.ret.val.distribution[tax.wallets[i].name].last_7_days
                    keys == DOMAIN last_7_days
                IN  /\ Cardinality(keys) <= 7
                    /\ keys \subseteq IncomingDates(i)
                    /\ \A d \in keys : \A e \in IncomingDates(i) \ keys : e < d
                    /\ Cardinality(IncomingDates(i)) >= 7 => Cardinality(keys) = 7
                    /\ Cardinality(IncomingDates(i)) < 7 => keys = IncomingDates(i)
                    /\ \A d \in keys :
                          last_7_days[d] =
                              Num(SumValues(i, {k \in IncomingPositions(i) : TxDate(i, k) = d}),
                                  100)

\* an entry for a wallet with incoming transactions on eight dates, two of
\* them on one of the dates kept, and an outgoing transaction on a date of its own
C19_Witness ==
    /\ tax.called
    /\ ~tax.ret.none
    /\ \E i \in 1..Len(tax.wallets) :
          /\ tax.wallets[i].name \in DOMAIN tax.ret.val.distribution
          /\ Cardinality(IncomingDates(i)) = 8
          /\ Cardinality(DOMAIN tax.ret.val.distribution[tax.wallets[i].name].last_7_days) = 7
          /\ \E k \in 1..Len(tax.histories[i]) :
                k \notin IncomingPositions(i) /\ TxDate(i, k) \notin IncomingDates(i)

-----------------------------------------------------------------------------
(* Properties of the batch runs, under SpecBatch. *)

\* the entities of a history in the order they were evaluated
VisitedIds(visited) == [j \in 1..Len(visited) |-> visited[j].id]

\* the entities of one kind whose evaluation returned a report
Succeeded(visited, kind) ==
    {visited[j].id : j \in {k \in 1..Len(visited) : visited[k].ok /\ visited[k].kind = kind}}

\* the history of an ecosystem run, its entries marked as tokens
EcoVisited == [j \in 1..Len(eco.visited) |->
                  [kind |-> "token", id |-> eco.visited[j].id, ok |-> eco.visited[j].ok]]

\* a finished ecosystem run has evaluated every token of its list in the
\* list's order, and its report has an entry for exactly the tokens that
\* have a health report
EcoReportIsComplete ==
    eco.pc = "done" =>
        /\ VisitedIds(eco.visited) = eco.token_ids
        /\ DOMAIN eco.tokens = Succeeded(EcoVisited, "token")
        /\ \A t \in DOMAIN eco.tokens : eco.tokens[t].token = t

\* a finished health check has evaluated every token and then every wallet
\* in order, and its report has an entry for exactly those that succeeded
HcReportIsComplete ==
    hc.pc = "done" =>
        /\ VisitedIds(hc.visited) = tokens \o wallet_order
        /\ \A j \in 1..Len(hc.visited) :
              hc.visited[j].kind = IF j <= Len(tokens) THEN "token" ELSE "wallet"
        /\ DOMAIN hc.tokens = Succeeded(hc.visited, "token")
        /\ DOMAIN hc.wallets = Succeeded(hc.visited, "wallet")
        /\ \A t \in DOMAIN hc.tokens : hc.tokens[t].token = t
        /\ \A n \in DOMAIN hc.wallets : hc.wallets[n].wallet = n

-----------------------------------------------------------------------------
(* Properties of the ecosystem aggregates, under SpecAggregate. *)

RECURSIVE SumField(_, _, _)
\* the sum of one field over the reports of the tokens ts of a report map
SumField(reports, field, ts) ==
    IF ts = {} THEN Int2Num(0)
    ELSE LET t == CHOOSE u \in ts : TRUE
         IN  FAdd(reports[t][field], SumField(reports, field, ts \ {t}))

\* the tokens of a finished run whose analyze_token_health call returned a report
Evaluated == {eco.visited[j].id : j \in {k \in 1..Len(eco.visited) : eco.visited[k].ok}}

\* C21: when analyze_multi_token_ecosystem returns, the per-token report map
\* holds exactly the tokens whose health evaluation succeeded, total_volume is
\* the sum of current_volume over the reports of that map, and
\* avg_price_change is the arithmetic mean of price_change_30d over the same
\* reports (0 when the map is empty).
C21_AggregatesRunOverReportedTokens ==
    eco.pc = "done" =>
        LET reported == DOMAIN eco.tokens
        IN  /\ reported = Evaluated
            /\ eco.metrics.total_volume = SumField(eco.tokens, "current_volume", reported)
            /\ eco.metrics.avg_price_change =
                   IF reported = {} THEN Int2Num(0)
                   ELSE FDiv(SumField(eco.tokens, "price_change_30d", reported),
                             Int2Num(Cardinality(reported)))

\* a finished run over two tokens that both have a report, with different
\* current volumes and different price changes
C21_Witness ==
    /\ eco.pc = "done"
    /\ \E t, u \in DOMAIN eco.tokens :
          /\ eco.tokens[t].current_volume # eco.tokens[u].current_volume
          /\ eco.tokens[t].price_change_30d # eco.tokens[u].price_change_30d
          /\ IsFinite(eco.tokens[t].price_change_30d)
          /\ IsFinite(eco.tokens[u].price_change_30d)

-----------------------------------------------------------------------------
(* Properties of the ecosystem health status, under SpecStatus. *)

\* the score is a number below n/d
ScoreBelow(score, n, d) == score[2] > 0 /\ score[1] * d < n * score[2]

\* the score is a number that is at least n/d, or +inf
ScoreAtLeast(score, n, d) ==
    \/ score[2] > 0 /\ score[1] * d >= n * score[2]
    \/ score = <<1, 0>>

\* C22: the health_status of a returned ecosystem report is decided by its
\* sustainability_score alone: Critical exactly when the score is below 1.0,
\* Warning exactly when it is at least 1.0 and below 1.5, Healthy exactly when
\* it is at least 1.5; a score of 1.0 is Warning and one of 1.5 is Healthy.
C22_StatusFollowsScore ==
    eco.pc = "done" =>
        LET score == eco.metrics.sustainability_score
            status == eco.metrics.health_status
        IN  /\ status \in {"Critical: Unsustainable", "Warning: Marginally Sustainable",
                           "Healthy: Sustainable"}
            /\ status = "Critical: Unsustainable" <=> ScoreBelow(score, 1, 1)
            /\ status = "Warning: Marginally Sustainable"
                   <=> (ScoreAtLeast(score, 1, 1) /\ ScoreBelow(score, 3, 2))
            /\ status = "Healthy: Sustainable" <=> ScoreAtLeast(score, 3, 2)

\* a report whose score of exactly 1.0 is the mean of two different ratios
C22_Witness ==
    /\ eco.pc = "done"
    /\ eco.metrics.sustainability_score = <<1, 1>>
    /\ eco.metrics.health_status = "Warning: Marginally Sustainable"
    /\ Len(eco.sustainability_scores) = 2
    /\ eco.sustainability_scores[1] # eco.sustainability_scores[2]

-----------------------------------------------------------------------------
(* Properties of get_token_data called in threads, under SpecParallel. *)

\* every call of the round has returned
AllReturned == \A t \in Threads : par.th[t].pc = "returned"

\* the threads whose fetch succeeded
Fetched == {t \in Threads : ~par.th[t].result.none}

\* the thread that stored last under the key k
LastWriter(k) ==
    par.order[CHOOSE j \in 1..Len(par.order) :
                 /\ par.th[par.order[j]].cache_key = k
                 /\ \A i \in (j + 1)..Len(par.order) : par.th[par.order[i]].cache_key # k]

\* C24: when the get_token_data calls of a round of threads have all
\* returned, every entry cached before the round is as it was, every key
\* whose fetch succeeded is cached, a key fetched by one thread holds that
\* thread's result, a key fetched by several holds the result of the thread
\* that stored last, and no other key has appeared; a call whose fetch
\* succeeded has returned its own result.
C24_ParallelWritesDoNotInterfere ==
    AllReturned =>
        LET fetched_keys == {par.th[t].cache_key : t \in Fetched}
        IN  /\ DOMAIN data_cache = DOMAIN par.cache0 \cup fetched_keys
            /\ \A k \in DOMAIN par.cache0 : data_cache[k] = par.cache0[k]
            /\ \A t \in Fetched : \E j \in 1..Len(par.order) : par.order[j] = t
            /\ \A k \in fetched_keys : data_cache[k] = par.th[LastWriter(k)].result.val
            /\ \A t \in Fetched : par.th[t].ret = par.th[t].result

\* a round in which two threads fetched different series for one key and a
\* third thread fetched another key, which was stored between their stores
C24_Witness ==
    /\ AllReturned
    /\ Len(par.order) = 3
    /\ par.th[par.order[1]].cache_key = par.th[par.order[3]].cache_key
    /\ par.th[par.order[1]].result # par.th[par.order[3]].result
    /\ par.th[par.order[2]].cache_key # par.th[par.order[1]].cache_key

-----------------------------------------------------------------------------
(* Properties of the cache key, under SpecKeys. *)

\* the (token_id, window_days, currency) triple of a recorded call
Triple(get) == <<get.token_id, get.days, get.vs_currency>>

\* C25: a get_token_data call is never served the series that the call
\* before it fetched and cached for a different (token_id, days,
\* vs_currency) triple: when the triples differ, the later call does not hit
\* the earlier call's cache entry.
C25_DistinctTriplesShareNoEntry ==
    [][(/\ last_get.requested
        /\ ~last_get.ret.none
        /\ GetCalled
        /\ Triple(last_get') # Triple(last_get))
          => ~(~last_get'.requested /\ last_get'.cache_key = last_get.cache_key)]_vars

-----------------------------------------------------------------------------
(* Properties of the estimated supply value, under SpecRounded. *)

\* the recorded call returned a report for a series of positive average volume
PositiveVolumeReport(call) ==
    call.called /\ ~call.ret.none /\ FGt(call.daily_volume, Int2Num(0))

\* C26: with total_supply_value = avg_daily_volume * 10, the report of
\* check_token_sustainability for a series of positive average volume is
\* decided by tax_rate and daily_roi alone: is_sustainable holds exactly when
\* tax_rate >= 10 * daily_roi, and two calls with the same tax_rate and
\* daily_roi return the same ratio and the same verdict, whatever the series.
C26_VerdictIgnoresSeries ==
    [][/\ PositiveVolumeReport(last_sust')
          => (last_sust'.ret.val.is_sustainable
                 <=> FGe(last_sust'.tax_rate, FMul(Int2Num(10), last_sust'.daily_roi)))
       /\ (/\ PositiveVolumeReport(last_sust)
           /\ PositiveVolumeReport(last_sust')
           /\ last_sust'.tax_rate = last_sust.tax_rate
           /\ last_sust'.daily_roi = last_sust.daily_roi)
             => /\ last_sust'.ret.val.sustainability_ratio
                       = last_sust.ret.val.sustainability_ratio
                /\ last_sust'.ret.val.is_sustainable
                       = last_sust.ret.val.is_sustainable]_vars

====
